---- MODULE Spec2Model ----
(***************************************************************************)
(* Model of the SCDS agent backend (src/backend): the four agents          *)
(* (meteorologist, agronomist, economist, planner), the shared AgentState   *)
(* and the LangGraph workflow that chains them.                             *)
(*                                                                         *)
(* Numbers: the source computes with Python floats.  The model keeps        *)
(* temperatures, precipitation and anomalies as whole numbers and money as  *)
(* whole USD; indices in [0,1] are kept in hundredths and percentages with   *)
(* one decimal in tenths (the unit is part of each operator's comment).     *)
(*                                                                         *)
(* Optional[T] fields are sets with at most one element: None is {} and a   *)
(* present value v is {v}.                                                  *)
(***************************************************************************)
EXTENDS Integers, Sequences, FiniteSets, TLC

VARIABLES
    mode,      \* "graph": agent_graph.ainvoke(state) ; "direct": agent.analyze(state)
               \* ; "helper": one helper method called on its own
    state,     \* the shared AgentState
    run,       \* "request" | "rejected" | "new" | "running" | "END" | "failed"
               \* (graph mode) ; "direct"
    active,    \* graph nodes scheduled in the current step of the workflow
    started,   \* the nodes entered so far, in order
    pcs,       \* position of each agent's analyze coroutine
    results,   \* how each finished analyze call ended, in order
    calls,     \* number of analyze calls made so far
    request,   \* the body of a POST /analyze, if the run was started by one
    helper,    \* one call of a helper method on its own: [fn, args, out]
    events     \* the events stream_agent_outputs has yielded so far

vars == <<mode, state, run, active, started, pcs, results, calls, request, helper, events>>

(***************************************************************************)
(* Bounds of the model                                                     *)
(***************************************************************************)
\* analyze calls a direct caller (a test) makes on one AgentState
MaxCalls == 1

(***************************************************************************)
(* Optional values                                                         *)
(***************************************************************************)
None == {}
Some(v) == {v}
Get(o) == CHOOSE v \in o : TRUE
\* Python truthiness of an Optional[BaseModel] field
Truthy(o) == o # None

Min(a, b) == IF a <= b THEN a ELSE b
Max(a, b) == IF a >= b THEN a ELSE b
Abs(a) == IF a < 0 THEN -a ELSE a


(***************************************************************************)
(* models/schemas.py                                                       *)
(***************************************************************************)
\* ClimateData: the declared fields and the Literal of extreme_weather_risk
ClimateDataFields ==
    {"temperature_avg", "precipitation_sum", "precipitation_anomaly",
     "extreme_weather_risk"}
RiskLiteral == {"low", "medium", "high"}

\* ClimateData(**kwargs): pydantic validation.  Every declared field is
\* required, unknown keyword arguments are ignored, and the risk must be one
\* of the Literal's values.  The result is {} when validation fails.
ClimateData(kwargs) ==
    IF /\ ClimateDataFields \subseteq DOMAIN kwargs
       /\ kwargs.extreme_weather_risk \in RiskLiteral
    THEN Some([f \in ClimateDataFields |-> kwargs[f]])
    ELSE None

\* attribute access obj.name on a pydantic model or on None
HasAttr(o, name) == o # None /\ name \in DOMAIN Get(o)

\* the fields of AgentState
AgentStateFields ==
    {"location", "radius", "priorities", "userPrompt", "climate_data",
     "meteorologist_output", "agronomist_output", "economist_output",
     "planner_output", "strategy", "impact"}

\* Location: lat and lng are Field(..., ge, le)
Location(kwargs) ==
    IF /\ -90 <= kwargs.lat /\ kwargs.lat <= 90
       /\ -180 <= kwargs.lng /\ kwargs.lng <= 180
    THEN Some(kwargs) ELSE None

\* Priorities: each weight is Field(..., ge=0, le=100)
Priorities(kwargs) ==
    IF \A k \in {"economic", "environmental", "social"} :
           0 <= kwargs[k] /\ kwargs[k] <= 100
    THEN Some(kwargs) ELSE None

\* AnalyzeRequest: validates its location and priorities, and
\* radius is Field(..., ge=10, le=200)
AnalyzeRequest(kwargs) ==
    IF /\ Location(kwargs.location) # None
       /\ Priorities(kwargs.priorities) # None
       /\ 10 <= kwargs.radius /\ kwargs.radius <= 200
    THEN Some(kwargs) ELSE None

\* AgentState: validates its location and priorities; radius is a plain float
AgentState(kwargs) ==
    IF /\ Location(kwargs.location) # None
       /\ Priorities(kwargs.priorities) # None
    THEN Some(kwargs) ELSE None

\* AgentClaim and AgentMessage (confidence in hundredths)
AgentClaim(metric, value, unit, confidence) ==
    [metric |-> metric, value |-> value, unit |-> unit, confidence |-> confidence]

\* BaseAgent.create_message: recommendations default to the empty list
create_message(name, message, claims, recommendations) ==
    [agent |-> name, message |-> message, claims |-> claims,
     recommendations |-> recommendations, timestamp |-> "utcnow"]

\* a recommendation: its text (shortened) and the percentage it quotes
Rec(text, pct) == <<text, pct>>

(***************************************************************************)
(* Sample values                                                           *)
(***************************************************************************)
Nairobi  == [lat |-> -1, lng |-> 37,  name |-> "Nairobi, Kenya"]
Miami    == [lat |-> 26, lng |-> -81, name |-> "Miami"]
Oklahoma == [lat |-> 35, lng |-> -97, name |-> "Oklahoma City"]
Locations == {Nairobi, Miami, Oklahoma}

PrioritiesSet == {[economic |-> 50, environmental |-> 30, social |-> 20]}
RadiusSet == {75}

\* values a client or a caller can send, in and out of the declared ranges
RawLocations ==
    Locations \cup {[lat |-> 95, lng |-> 37, name |-> "north of the pole"],
                    [lat |-> -1, lng |-> 200, name |-> "east of the date line"]}
RawPriorities ==
    PrioritiesSet \cup {[economic |-> 120, environmental |-> 30, social |-> 20],
                        [economic |-> 50, environmental |-> -5, social |-> 20]}
RawRadius == {5, 75, 250}

Climate(t, p, a, r) ==
    [temperature_avg |-> t, precipitation_sum |-> p,
     precipitation_anomaly |-> a, extreme_weather_risk |-> r]

\* schema-valid ClimateData records (the first four are the tests' records)
ClimateSet ==
    {Climate(27, 150, -15, "medium"), Climate(29, 120, -30, "high"),
     Climate(24, 180, -5, "medium"),  Climate(28, 110, -35, "high"),
     Climate(32, 300, 40, "low"),     Climate(20, 45, -80, "high")}

\* upstream messages as the tests build them (tests/test_planner_agent.py);
\* claim values carry the unit of their metric: anomalies in tenths,
\* indices in hundredths, yield and income changes in tenths of a percent,
\* adaptation costs in tenths of the claim's unit
MetMessages ==
    {create_message("Meteorologist", "stub message",
        <<AgentClaim("temperature_avg", 29, "C", 90),
          AgentClaim("precipitation_anomaly", -300, "%", 90)>>,
        <<Rec("Prepare for prolonged dry spell conditions", 0)>>),
     create_message("Meteorologist", "stub message", <<>>,
        <<Rec("Maintain seasonal monitoring", 0)>>)}

AgrMessages ==
    {create_message("Agronomist", "stub message",
        <<AgentClaim("crop_yield_change", -200, "%", 80),
          AgentClaim("water_stress_index", 60, "index", 75),
          AgentClaim("soil_health_index", 35, "index", 70)>>,
        <<Rec("Switch maize to drought-tolerant sorghum", 40),
          Rec("Install water harvesting pits at field edges", 0)>>)}

EconMessages ==
    {create_message("Economist", "stub message",
        <<AgentClaim("income_change", -120, "%", 75),
          AgentClaim("adaptation_cost", 1200000, "USD", 70),
          AgentClaim("economic_resilience", 32, "index", 65)>>,
        <<Rec("Seek blended finance to offset high upfront irrigation costs", 0)>>)}

Opt(S) == {None} \cup {Some(v) : v \in S}

\* an AgentState as main.analyze and the pipeline test create it
InitialState(loc, rad, prio) ==
    [location |-> loc, radius |-> rad, priorities |-> prio,
     userPrompt |-> "Focus on drought resilience",
     climate_data |-> None, meteorologist_output |-> None,
     agronomist_output |-> None, economist_output |-> None,
     planner_output |-> None, strategy |-> None, impact |-> None]

\* the AgentStates a direct caller can construct
DirectStates ==
    { [InitialState(loc, rad, prio) EXCEPT
          !.climate_data = c, !.meteorologist_output = m,
          !.agronomist_output = a, !.economist_output = e] :
        loc \in Locations, rad \in RadiusSet, prio \in PrioritiesSet,
        c \in Opt(ClimateSet), m \in Opt(MetMessages),
        a \in Opt(AgrMessages), e \in Opt(EconMessages) }

(***************************************************************************)
(* The external collaborators                                              *)
(***************************************************************************)
\* what the Open-Meteo archive request can do: fail at the HTTP level,
\* answer without the daily series, with an empty series, with a missing
\* (null) sample, or with a complete series (summarised by its mean
\* temperature and its 90-day precipitation total); "stub" is the tests'
\* AsyncMock that replaces _fetch_climate_data and returns a ClimateData
FetchFailures == {"http_error", "missing_key", "empty_series", "null_sample"}

Fetch(kind, t, p, c) == [kind |-> kind, avg_temp |-> t, total_precip |-> p, stub |-> c]

\* 90-day totals are multiples of 18 so that total * 365 / 90 is whole
SampleTemps == {20, 28, 31, 36}
SampleTotals == {54, 216, 306, 450}

FetchOutcomes ==
    {Fetch(k, 0, 0, None) : k \in FetchFailures}
    \cup {Fetch("ok", t, p, None) : t \in SampleTemps, p \in SampleTotals}
    \cup {Fetch("stub", 0, 0, Some(c)) : c \in ClimateSet}


\* the exception each failed archive request ends in
FetchError(kind) ==
    CASE kind = "http_error"   -> "HTTPError"
      [] kind = "missing_key"  -> "KeyError"
      [] kind = "empty_series" -> "ZeroDivisionError"
      [] kind = "null_sample"  -> "TypeError"

(***************************************************************************)
(* How an analyze call ends                                                *)
(***************************************************************************)
\* the collaborator outcomes a call consumed: the archive answer, the LLM
\* answer and the direction in which exact rounding ties fell
Used(fetch, llm, tie_up) == [fetch |-> fetch, llm |-> llm, tie_up |-> tie_up]
Unused == Used(None, None, None)

\* trace: the steps of the handler that ran; risk: the risk level the
\* climate fetch computed, if it got that far
Returned(stage, input, update, trace, risk, used) ==
    [stage |-> stage, outcome |-> "returned", error |-> "", input |-> Some(input),
     update |-> Some(update), trace |-> trace, risk |-> risk, used |-> used]

Raised(stage, input, error, trace, risk, used) ==
    [stage |-> stage, outcome |-> "raised", error |-> error, input |-> Some(input),
     update |-> None, trace |-> trace, risk |-> risk, used |-> used]

\* getattr(state, "years_in_future", 5): AgentState declares no such field
years_in_future == 5

(***************************************************************************)
(* agents/meteorologist.py                                                 *)
(***************************************************************************)
\* _assess_weather_risk(temp, precip, lat, lon)
_assess_weather_risk(temp, precip, lat, lon) ==
    LET s_temp == IF temp > 30 THEN 2 ELSE IF temp > 27 THEN 1 ELSE 0
        s_precip == IF precip < 400 THEN 2
                    ELSE IF precip > 1800 THEN 2
                    ELSE IF precip > 1200 THEN 1 ELSE 0
        s_storm == IF \/ (24 < lat /\ lat < 32 /\ -98 < lon /\ lon < -80)
                      \/ (15 < lat /\ lat < 30 /\ -85 < lon /\ lon < -60)
                   THEN 2 ELSE 0
        s_tornado == IF 30 < lat /\ lat < 45 /\ -105 < lon /\ lon < -85
                     THEN 1 ELSE 0
        risk_score == s_temp + s_precip + s_storm + s_tornado
    IN  IF risk_score >= 4 THEN "extreme"
        ELSE IF risk_score >= 3 THEN "high"
        ELSE IF risk_score >= 2 THEN "medium"
        ELSE "low"

\* the keyword arguments _fetch_climate_data passes to ClimateData(...)
\* after a complete answer: annual_precip = total * (365 / 90)
FetchedKwargs(f, lat, lon) ==
    LET annual_precip == (f.total_precip * 365) \div 90
    IN  [temperature |-> f.avg_temp, precipitation |-> annual_precip,
         extreme_weather_risk |->
             _assess_weather_risk(f.avg_temp, annual_precip, lat, lon)]

\* round-half-even of n/d (Python's round on an exactly representable tie)
RoundDiv(n, d) ==
    LET q == n \div d
        r == n % d
    IN  IF 2 * r < d THEN q
        ELSE IF 2 * r > d THEN q + 1
        ELSE IF q % 2 = 0 THEN q ELSE q + 1

\* _calculate_future_projections(climate_data, years), on a record that has
\* the attribute precipitation: temp_anomaly in hundredths of a degree,
\* precip_anomaly in tenths of a mm
_calculate_future_projections(climate, years) ==
    LET baseline_precip == climate.precipitation
        precip_change_rate == IF baseline_precip < 500 THEN -5
                              ELSE IF baseline_precip > 1200 THEN 15
                              ELSE 2
    IN  [temp_anomaly |-> RoundDiv(years * 25, 10),
         precip_anomaly |-> years * precip_change_rate]

\* the claims MeteorologistAgent.analyze creates
MeteorologistClaims(climate, projections) ==
    <<AgentClaim("temperature", climate.temperature, "C", 95),
      AgentClaim("precipitation", climate.precipitation, "mm", 93),
      AgentClaim("temperature_anomaly", projections.temp_anomaly, "C", 75),
      AgentClaim("precipitation_anomaly", projections.precip_anomaly, "mm", 72)>>

\* MeteorologistAgent.analyze from the point where the awaited
\* _fetch_climate_data call ends, on state s with collaborators e
MeteorologistAnalyze(s, e) ==
    LET f == e.fetch
        lat == s.location.lat
        lon == s.location.lng
        kw == FetchedKwargs(f, lat, lon)
        climate_data == IF f.kind = "stub" THEN f.stub ELSE ClimateData(kw)
        risk == IF f.kind = "ok" THEN Some(kw.extreme_weather_risk) ELSE None
    IN  IF f.kind \in FetchFailures
        THEN Raised("meteorologist", s, FetchError(f.kind), <<"_fetch_climate_data">>,
                    None, Used(Some(f), None, None))
        ELSE IF climate_data = None
        THEN Raised("meteorologist", s, "ValidationError",
                    <<"_fetch_climate_data", "_assess_weather_risk">>, risk,
                    Used(Some(f), None, None))
        ELSE IF ~ HasAttr(climate_data, "precipitation")
        THEN Raised("meteorologist", s, "AttributeError",
                    <<"_fetch_climate_data", "_calculate_future_projections">>, risk,
                    Used(Some(f), None, None))
        ELSE LET projections ==
                     _calculate_future_projections(Get(climate_data), years_in_future)
                 claims == MeteorologistClaims(Get(climate_data), projections)
                 steps == <<"_fetch_climate_data", "_calculate_future_projections",
                            "_generate_ai_analysis">>
             IN  IF e.llm # "ok"
                 THEN Raised("meteorologist", s, "LLMError", steps, risk,
                             Used(Some(f), Some(e.llm), None))
                 ELSE Returned("meteorologist", s,
                          [climate_data |-> climate_data,
                           meteorologist_output |->
                               Some(create_message("Meteorologist", "llm", claims, <<>>))],
                          steps, risk, Used(Some(f), Some(e.llm), None))

(***************************************************************************)
(* agents/agronomist.py                                                    *)
(***************************************************************************)
\* round(x, 2) of x = n/d hundredths.  Where n/d lies exactly between two
\* hundredths the float the source rounds is a hair above or below the tie,
\* so the result is either neighbour: up says which (env.tie_up).
RoundTie(n, d, up) ==
    LET q == n \div d
        r == n % d
    IN  IF 2 * r < d THEN q
        ELSE IF 2 * r > d THEN q + 1
        ELSE IF up THEN q + 1 ELSE q

\* a yield calculator whose anomaly bands exclude their upper ends
_calculate_yield_impact_StrictBands(precip_anomaly, temp_avg) ==
    LET base == IF precip_anomaly < -45 THEN -250
                ELSE IF precip_anomaly < -30 THEN -225
                ELSE IF precip_anomaly < -15 THEN -125
                ELSE IF precip_anomaly < 10 THEN -25
                ELSE Min(80, precip_anomaly * 2)
    IN  IF temp_avg > 30 THEN base - 50
        ELSE IF 15 <= temp_avg /\ temp_avg <= 25 THEN base + 50
        ELSE base

\* _calculate_yield_impact(precip_anomaly, temp_avg), in tenths of a percent
_calculate_yield_impact(precip_anomaly, temp_avg) ==
    LET base == IF precip_anomaly <= -45 THEN -250
                ELSE IF precip_anomaly <= -30 THEN -225
                ELSE IF precip_anomaly <= -15 THEN -125
                ELSE IF precip_anomaly <= 10 THEN -25
                ELSE Min(80, precip_anomaly * 2)
    IN  IF temp_avg > 30 THEN base - 50
        ELSE IF 15 <= temp_avg /\ temp_avg <= 25 THEN base + 50
        ELSE base

\* a water stress that shrinks as the deficit grows
_calculate_water_stress_Falling(precip_anomaly, up) ==
    IF precip_anomaly < 0
    THEN RoundTie(Max(0, 200 + precip_anomaly), 10, up)
    ELSE RoundTie(Min(600, 400 + precip_anomaly), 20, up)

\* _calculate_water_stress(precip_anomaly), in hundredths; the anomaly is
\* given in tenths of a percent, so that the stress before rounding is a
\* whole number of thousandths (drought) or of 1/2000 (surplus)
_calculate_water_stress(precip_anomaly, up) ==
    IF precip_anomaly < 0
    THEN RoundTie(Min(1000, 200 + (-precip_anomaly)), 10, up)
    ELSE RoundTie(Min(600, 400 + precip_anomaly), 20, up)

\* the risk penalty table of _calculate_soil_health, in 1/30000
risk_penalty(risk) ==
    CASE risk = "low" -> 0
      [] risk = "medium" -> 2100
      [] risk = "high" -> 4500

\* a soil health that is rounded without being clamped
_calculate_soil_health_Unclamped(precip_anomaly, water_stress, risk, up) ==
    LET start == 21000
        moisture == IF precip_anomaly < 0
                    THEN start - Min(12000, Abs(precip_anomaly) * 200)
                    ELSE start + Min(4500, precip_anomaly * 120)
        score == moisture - water_stress * 105 - risk_penalty(risk)
    IN  RoundTie(score, 300, up)

\* _calculate_soil_health(precip_anomaly, water_stress, risk), in hundredths;
\* the score is accumulated in 1/30000 so that /150, /250 and *0.35 are exact
_calculate_soil_health(precip_anomaly, water_stress, risk, up) ==
    LET start == 21000
        moisture == IF precip_anomaly < 0
                    THEN start - Min(12000, Abs(precip_anomaly) * 200)
                    ELSE start + Min(4500, precip_anomaly * 120)
        score == moisture - water_stress * 105 - risk_penalty(risk)
    IN  RoundTie(Max(0, Min(30000, score)), 300, up)

AppendIf(cond, seq, item) == IF cond THEN Append(seq, item) ELSE seq

\* a generator without the fallback recommendations
Agronomist_generate_recommendations_NoFallback(precip_anomaly, risk) ==
    LET drought_severity == IF precip_anomaly < 0 THEN Max(0, -precip_anomaly) ELSE 0
        r1 == IF drought_severity > 40
              THEN <<Rec("Switch to drought-resistant varieties",
                         Min(50, (drought_severity * 8) \div 10))>>
              ELSE IF drought_severity > 20
              THEN <<Rec("Introduce drought-tolerant varieties",
                         Min(30, drought_severity))>>
              ELSE IF drought_severity > 10
              THEN <<Rec("Begin transitioning 15-20% of fields", 0)>>
              ELSE <<>>
        r2 == IF drought_severity > 30
              THEN r1 \o <<Rec("Implement emergency water conservation", 0),
                           Rec("Establish rainwater harvesting systems", 0)>>
              ELSE IF drought_severity > 15
              THEN Append(r1, Rec("Install water-efficient irrigation systems", 0))
              ELSE r1
        r3 == IF precip_anomaly > 30
              THEN r2 \o <<Rec("Improve field drainage systems", 0),
                           Rec("Apply preventative fungicide treatments", 0)>>
              ELSE r2
        r4 == IF risk = "high"
              THEN LET d == Append(r3, Rec("Diversify with legumes", 0))
                   IN  AppendIf(Len(d) < 5, d, Rec("Adopt conservation agriculture", 0))
              ELSE IF risk = "medium"
              THEN AppendIf(Len(r3) < 5, r3, Rec("Consider crop insurance", 0))
              ELSE r3
        r5 == AppendIf(10 < drought_severity /\ drought_severity < 30 /\ Len(r4) < 5,
                       r4, Rec("Adjust planting schedules", 0))
        r6 == r5
    IN  SubSeq(r6, 1, Min(5, Len(r6)))

\* a generator without the crop insurance advice for medium risk
Agronomist_generate_recommendations_NoInsurance(precip_anomaly, risk) ==
    LET drought_severity == IF precip_anomaly < 0 THEN Max(0, -precip_anomaly) ELSE 0
        r1 == IF drought_severity > 40
              THEN <<Rec("Switch to drought-resistant varieties",
                         Min(50, (drought_severity * 8) \div 10))>>
              ELSE IF drought_severity > 20
              THEN <<Rec("Introduce drought-tolerant varieties",
                         Min(30, drought_severity))>>
              ELSE IF drought_severity > 10
              THEN <<Rec("Begin transitioning 15-20% of fields", 0)>>
              ELSE <<>>
        r2 == IF drought_severity > 30
              THEN r1 \o <<Rec("Implement emergency water conservation", 0),
                           Rec("Establish rainwater harvesting systems", 0)>>
              ELSE IF drought_severity > 15
              THEN Append(r1, Rec("Install water-efficient irrigation systems", 0))
              ELSE r1
        r3 == IF precip_anomaly > 30
              THEN r2 \o <<Rec("Improve field drainage systems", 0),
                           Rec("Apply preventative fungicide treatments", 0)>>
              ELSE r2
        r4 == IF risk = "high"
              THEN LET d == Append(r3, Rec("Diversify with legumes", 0))
                   IN  AppendIf(Len(d) < 5, d, Rec("Adopt conservation agriculture", 0))
              ELSE IF risk = "medium"
              THEN r3
              ELSE r3
        r5 == AppendIf(10 < drought_severity /\ drought_severity < 30 /\ Len(r4) < 5,
                       r4, Rec("Adjust planting schedules", 0))
        r6 == IF Len(r5) < 2
              THEN r5 \o <<Rec("Monitor soil moisture levels regularly", 0),
                           Rec("Maintain diverse crop mix", 0)>>
              ELSE r5
    IN  SubSeq(r6, 1, Min(5, Len(r6)))

\* a generator that diversifies with legumes only while the list is short
Agronomist_generate_recommendations_LegumesIfRoom(precip_anomaly, risk) ==
    LET drought_severity == IF precip_anomaly < 0 THEN Max(0, -precip_anomaly) ELSE 0
        r1 == IF drought_severity > 40
              THEN <<Rec("Switch to drought-resistant varieties",
                         Min(50, (drought_severity * 8) \div 10))>>
              ELSE IF drought_severity > 20
              THEN <<Rec("Introduce drought-tolerant varieties",
                         Min(30, drought_severity))>>
              ELSE IF drought_severity > 10
              THEN <<Rec("Begin transitioning 15-20% of fields", 0)>>
              ELSE <<>>
        r2 == IF drought_severity > 30
              THEN r1 \o <<Rec("Implement emergency water conservation", 0),
                           Rec("Establish rainwater harvesting systems", 0)>>
              ELSE IF drought_severity > 15
              THEN Append(r1, Rec("Install water-efficient irrigation systems", 0))
              ELSE r1
        r3 == IF precip_anomaly > 30
              THEN r2 \o <<Rec("Improve field drainage systems", 0),
                           Rec("Apply preventative fungicide treatments", 0)>>
              ELSE r2
        r4 == IF risk = "high"
              THEN LET d == AppendIf(Len(r3) < 3, r3, Rec("Diversify with legumes", 0))
                   IN  AppendIf(Len(d) < 5, d, Rec("Adopt conservation agriculture", 0))
              ELSE IF risk = "medium"
              THEN AppendIf(Len(r3) < 5, r3, Rec("Consider crop insurance", 0))
              ELSE r3
        r5 == AppendIf(10 < drought_severity /\ drought_severity < 30 /\ Len(r4) < 5,
                       r4, Rec("Adjust planting schedules", 0))
        r6 == IF Len(r5) < 2
              THEN r5 \o <<Rec("Monitor soil moisture levels regularly", 0),
                           Rec("Maintain diverse crop mix", 0)>>
              ELSE r5
    IN  SubSeq(r6, 1, Min(5, Len(r6)))

\* AgronomistAgent._generate_recommendations(precip_anomaly, risk)
Agronomist_generate_recommendations(precip_anomaly, risk) ==
    LET drought_severity == IF precip_anomaly < 0 THEN Max(0, -precip_anomaly) ELSE 0
        r1 == IF drought_severity > 40
              THEN <<Rec("Switch to drought-resistant varieties",
                         Min(50, (drought_severity * 8) \div 10))>>
              ELSE IF drought_severity > 20
              THEN <<Rec("Introduce drought-tolerant varieties",
                         Min(30, drought_severity))>>
              ELSE IF drought_severity > 10
              THEN <<Rec("Begin transitioning 15-20% of fields", 0)>>
              ELSE <<>>
        r2 == IF drought_severity > 30
              THEN r1 \o <<Rec("Implement emergency water conservation", 0),
                           Rec("Establish rainwater harvesting systems", 0)>>
              ELSE IF drought_severity > 15
              THEN Append(r1, Rec("Install water-efficient irrigation systems", 0))
              ELSE r1
        r3 == IF precip_anomaly > 30
              THEN r2 \o <<Rec("Improve field drainage systems", 0),
                           Rec("Apply preventative fungicide treatments", 0)>>
              ELSE r2
        r4 == IF risk = "high"
              THEN LET d == Append(r3, Rec("Diversify with legumes", 0))
                   IN  AppendIf(Len(d) < 5, d, Rec("Adopt conservation agriculture", 0))
              ELSE IF risk = "medium"
              THEN AppendIf(Len(r3) < 5, r3, Rec("Consider crop insurance", 0))
              ELSE r3
        r5 == AppendIf(10 < drought_severity /\ drought_severity < 30 /\ Len(r4) < 5,
                       r4, Rec("Adjust planting schedules", 0))
        r6 == IF Len(r5) < 2
              THEN r5 \o <<Rec("Monitor soil moisture levels regularly", 0),
                           Rec("Maintain diverse crop mix", 0)>>
              ELSE r5
    IN  SubSeq(r6, 1, Min(5, Len(r6)))

\* claims whose soil health is computed from a normal water stress of 0.2
\* instead of the reported one
AgronomistClaims_NormalStress(climate, up) ==
    LET yield_change == _calculate_yield_impact(climate.precipitation_anomaly,
                                                climate.temperature_avg)
        water_stress == _calculate_water_stress(climate.precipitation_anomaly * 10, up)
        soil_health == _calculate_soil_health(climate.precipitation_anomaly,
                                              20,
                                              climate.extreme_weather_risk, up)
    IN  <<AgentClaim("crop_yield_change", yield_change, "%", 80),
          AgentClaim("water_stress_index", water_stress, "index", 75),
          AgentClaim("soil_health_index", soil_health, "index", 70)>>

\* the claims AgronomistAgent.analyze creates from the climate data
AgronomistClaims(climate, up) ==
    LET yield_change == _calculate_yield_impact(climate.precipitation_anomaly,
                                                climate.temperature_avg)
        water_stress == _calculate_water_stress(climate.precipitation_anomaly * 10, up)
        soil_health == _calculate_soil_health(climate.precipitation_anomaly,
                                              water_stress,
                                              climate.extreme_weather_risk, up)
    IN  <<AgentClaim("crop_yield_change", yield_change, "%", 80),
          AgentClaim("water_stress_index", water_stress, "index", 75),
          AgentClaim("soil_health_index", soil_health, "index", 70)>>

\* AgronomistAgent.analyze up to its await of llm.ainvoke: {} when the
\* coroutine suspends there, else the way the call ended
AgronomistStart(s, e) ==
    IF ~ Truthy(s.climate_data)
    THEN Some(Raised("agronomist", s, "ValueError", <<>>, None, Unused))
    ELSE IF e.llm = "none"
    THEN Some(Raised("agronomist", s, "EnvironmentError",
                     <<"_calculate_yield_impact", "_calculate_water_stress",
                       "_calculate_soil_health", "_generate_recommendations",
                       "_generate_ai_analysis">>, None,
                     Used(None, Some(e.llm), Some(e.tie_up))))
    ELSE None

\* an agronomist that also hands back a climate record of its own
AgronomistResume_RewritesClimate(s, e) ==
    LET climate == Get(s.climate_data)
        steps == <<"_calculate_yield_impact", "_calculate_water_stress",
                   "_calculate_soil_health", "_generate_recommendations",
                   "_generate_ai_analysis">>
    IN  IF e.llm = "fail"
        THEN Raised("agronomist", s, "LLMError", steps, None,
                    Used(None, Some(e.llm), Some(e.tie_up)))
        ELSE Returned("agronomist", s,
                 [agronomist_output |->
                     Some(create_message("Agronomist", "llm",
                              AgronomistClaims(climate, e.tie_up),
                              Agronomist_generate_recommendations(
                                  climate.precipitation_anomaly,
                                  climate.extreme_weather_risk))),
                  climate_data |-> Some(Climate(0, 0, 0, "low"))],
                 steps, None, Used(None, Some(e.llm), Some(e.tie_up)))

\* AgronomistAgent.analyze from the point where llm.ainvoke ends
AgronomistResume(s, e) ==
    LET climate == Get(s.climate_data)
        steps == <<"_calculate_yield_impact", "_calculate_water_stress",
                   "_calculate_soil_health", "_generate_recommendations",
                   "_generate_ai_analysis">>
    IN  IF e.llm = "fail"
        THEN Raised("agronomist", s, "LLMError", steps, None,
                    Used(None, Some(e.llm), Some(e.tie_up)))
        ELSE Returned("agronomist", s,
                 [agronomist_output |->
                     Some(create_message("Agronomist", "llm",
                              AgronomistClaims(climate, e.tie_up),
                              Agronomist_generate_recommendations(
                                  climate.precipitation_anomaly,
                                  climate.extreme_weather_risk)))],
                 steps, None, Used(None, Some(e.llm), Some(e.tie_up)))

(***************************************************************************)
(* agents/economist.py                                                     *)
(***************************************************************************)
RECURSIVE Pow(_, _)
Pow(b, n) == IF n = 0 THEN 1 ELSE b * Pow(b, n - 1)

\* the claims the loops of the extraction helpers run over: none when the
\* output is None (hasattr(None, 'claims') is False)
ClaimsOf(output) == IF output = None THEN <<>> ELSE Get(output).claims

\* EconomistAgent._extract_climate_metrics: the loop assigns on every
\* matching claim, so the last claim with a name decides
RECURSIVE ScanClimateMetrics(_, _)
ScanClimateMetrics(claims, metrics) ==
    IF claims = <<>> THEN metrics
    ELSE LET claim == Head(claims)
         IN  ScanClimateMetrics(Tail(claims),
                 IF claim.metric = "temperature_anomaly"
                 THEN [metrics EXCEPT !.temp_anomaly = claim.value]
                 ELSE IF claim.metric = "precipitation_anomaly"
                 THEN [metrics EXCEPT !.precip_anomaly = claim.value]
                 ELSE metrics)

_extract_climate_metrics(s) ==
    ScanClimateMetrics(ClaimsOf(s.meteorologist_output),
                       [temp_anomaly |-> 0, precip_anomaly |-> 0])

\* _estimate_adaptation_cost(risk, temp, years), in USD
_estimate_adaptation_cost(risk, temp, years) ==
    LET base == CASE risk = "low" -> 5000
                  [] risk = "medium" -> 15000
                  [] risk = "high" -> 35000
                  [] risk = "extreme" -> 60000
                  [] OTHER -> 15000
        heated == IF temp > 30 THEN base + (temp - 30) * 2000
                  ELSE IF temp < 10 THEN base + (10 - temp) * 1500
                  ELSE base
    IN  IF years > 10
        THEN RoundDiv(heated * (100 + (years - 10) * 5), 100)
        ELSE heated

\* EconomistAgent._is_coastal and PlannerAgent._is_likely_coastal
_is_coastal(lat, lon) ==
    \/ (24 < lat /\ lat < 31 /\ -88 < lon /\ lon < -80)
    \/ (29 < lat /\ lat < 31 /\ -98 < lon /\ lon < -88)
    \/ (32 < lat /\ lat < 45 /\ -79 < lon /\ lon < -70)
    \/ (32 < lat /\ lat < 49 /\ -125 < lon /\ lon < -117)

\* _calculate_property_impact(climate_data, years, lat, lon), in tenths of
\* a percent, on a record that has the attributes temperature and
\* precipitation
_calculate_property_impact(climate, years, lat, lon) ==
    LET risk == climate.extreme_weather_risk
        risk_impact == CASE risk = "low" -> 0
                         [] risk = "medium" -> -30
                         [] risk = "high" -> -80
                         [] risk = "extreme" -> -150
                         [] OTHER -> -30
        heat == IF climate.temperature > 32 THEN -100
                ELSE IF climate.temperature > 28 THEN -50 ELSE 0
        coast == IF _is_coastal(lat, lon)
                 THEN (IF years > 15 THEN -120 ELSE IF years > 10 THEN -70 ELSE 0)
                 ELSE 0
        drought == IF climate.precipitation < 400 THEN -60 ELSE 0
        impact == risk_impact + heat + coast + drought
    IN  IF years > 20 THEN RoundDiv(impact * 3, 2) ELSE impact

\* _estimate_insurance_cost(risk, years), in USD
_estimate_insurance_cost(risk, years) ==
    LET base == CASE risk = "low" -> 1200
                  [] risk = "medium" -> 2500
                  [] risk = "high" -> 5000
                  [] risk = "extreme" -> 9000
                  [] OTHER -> 2500
        pct == IF risk \in {"high", "extreme"} THEN 107 ELSE 104
    IN  IF years > 5
        THEN RoundDiv(base * Pow(pct, years), Pow(100, years))
        ELSE base

\* _assess_economic_vulnerability(adaptation_cost, property_impact,
\* insurance_cost), in quarters of a point (property_impact in tenths)
_assess_economic_vulnerability(adaptation_cost, property_impact, insurance_cost) ==
    LET a == IF adaptation_cost > 50000 THEN 40
             ELSE IF adaptation_cost > 30000 THEN 30
             ELSE IF adaptation_cost > 15000 THEN 20
             ELSE 10
        p == Min(Abs(property_impact), 140)
        i == IF insurance_cost > 7000 THEN 25
             ELSE IF insurance_cost > 4000 THEN 18
             ELSE IF insurance_cost > 2000 THEN 10
             ELSE 5
    IN  Min(a * 4 + p + i * 4, 400)

\* the claims EconomistAgent.analyze creates; adaptation_cost / 1000 is kept
\* in tenths of a k USD
EconomistClaims(adaptation_cost, property_value_impact, insurance_cost, economic_vulnerability) ==
    <<AgentClaim("adaptation_cost", adaptation_cost \div 100, "k USD", 72),
      AgentClaim("property_value_change", property_value_impact, "%", 68),
      AgentClaim("annual_insurance_cost", insurance_cost, "USD", 75),
      AgentClaim("economic_vulnerability", economic_vulnerability, "0-100", 70)>>

\* EconomistAgent.analyze on state s
EconomistAnalyze(s) ==
    IF ~ Truthy(s.meteorologist_output)
    THEN Raised("economist", s, "ValueError", <<>>, None, Unused)
    ELSE IF ~ HasAttr(s.climate_data, "extreme_weather_risk")
            \/ ~ HasAttr(s.climate_data, "temperature")
    THEN Raised("economist", s, "AttributeError", <<"_extract_climate_metrics">>,
                None, Unused)
    ELSE LET years == years_in_future
             climate == Get(s.climate_data)
             lat == s.location.lat
             lng == s.location.lng
             adaptation_cost ==
                 _estimate_adaptation_cost(climate.extreme_weather_risk,
                                           climate.temperature, years)
         IN  IF ~ HasAttr(s.climate_data, "precipitation")
             THEN Raised("economist", s, "AttributeError",
                         <<"_extract_climate_metrics", "_estimate_adaptation_cost",
                           "_calculate_property_impact">>, None, Unused)
             ELSE LET property_value_impact ==
                          _calculate_property_impact(climate, years, lat, lng)
                      insurance_cost ==
                          _estimate_insurance_cost(climate.extreme_weather_risk, years)
                      economic_vulnerability ==
                          _assess_economic_vulnerability(adaptation_cost,
                              property_value_impact, insurance_cost)
                  IN  Returned("economist", s,
                          [economist_output |->
                              Some(create_message("Economist", "template",
                                  EconomistClaims(adaptation_cost,
                                      property_value_impact, insurance_cost,
                                      economic_vulnerability),
                                  <<>>))],
                          <<"_extract_climate_metrics", "_estimate_adaptation_cost",
                            "_calculate_property_impact", "_estimate_insurance_cost",
                            "_assess_economic_vulnerability", "_generate_message">>,
                          None, Unused)

(***************************************************************************)
(* agents/planner.py                                                       *)
(***************************************************************************)
\* PlannerAgent._extract_meteorologist_insights: every matching claim
\* overwrites the entry, so the last claim with a name decides
RECURSIVE ScanMeteorologistClaims(_, _)
ScanMeteorologistClaims(claims, insights) ==
    IF claims = <<>> THEN insights
    ELSE LET claim == Head(claims)
         IN  ScanMeteorologistClaims(Tail(claims),
                 IF claim.metric = "precipitation_anomaly"
                 THEN [insights EXCEPT !.precipitation_trend = claim.value]
                 ELSE IF claim.metric = "temperature_anomaly"
                 THEN [insights EXCEPT !.temperature_anomaly = claim.value]
                 ELSE insights)

_extract_meteorologist_insights(s) ==
    ScanMeteorologistClaims(ClaimsOf(s.meteorologist_output),
        [precipitation_trend |-> 0, temperature_anomaly |-> 0,
         extreme_weather_likelihood |-> "medium"])

\* PlannerAgent._extract_economist_insights (economic_vulnerability in
\* quarters of a point: the default 50 is 200)
RECURSIVE ScanEconomistClaims(_, _)
ScanEconomistClaims(claims, insights) ==
    IF claims = <<>> THEN insights
    ELSE LET claim == Head(claims)
         IN  ScanEconomistClaims(Tail(claims),
                 IF claim.metric = "income_change"
                 THEN [insights EXCEPT !.income_change = claim.value]
                 ELSE IF claim.metric = "adaptation_cost"
                 THEN [insights EXCEPT !.adaptation_cost = claim.value]
                 ELSE IF claim.metric = "economic_impact"
                 THEN [insights EXCEPT !.economic_vulnerability = Abs(claim.value)]
                 ELSE insights)

_extract_economist_insights(s) ==
    ScanEconomistClaims(ClaimsOf(s.economist_output),
        [income_change |-> 0, adaptation_cost |-> 0, economic_vulnerability |-> 200])

\* effective_temp in thousandths of a degree (temperature_anomaly is in
\* hundredths) and effective_precip in fiftieths of a mm (precipitation_trend
\* is in tenths)
effective_temp(climate, years, met_data) ==
    climate.temperature * 1000 + met_data.temperature_anomaly * years

effective_precip(climate, years, met_data) ==
    climate.precipitation * 50 + met_data.precipitation_trend * years

\* _identify_hazards(state, years, met_data), on a climate record that has
\* the attributes temperature and precipitation
_identify_hazards(climate, lat, lng, years, met_data) ==
    LET temp == effective_temp(climate, years, met_data)
        precip == effective_precip(climate, years, met_data)
        risk == climate.extreme_weather_risk
        h1 == IF temp > 28000
              THEN AppendIf(years > 10, <<"Extreme heat waves">>, "Prolonged heat stress")
              ELSE <<>>
        h2 == AppendIf(temp > 32000 /\ years > 15, h1, "Dangerous heat conditions")
        h3 == IF precip < 400 * 50
              THEN h2 \o <<"Severe drought", "Water scarcity">>
              ELSE IF precip > 1500 * 50
              THEN h2 \o <<"Flooding", "Storm damage">>
              ELSE h2
        h4 == IF risk \in {"high", "extreme"}
              THEN h3 \o <<"Hurricanes/tropical storms", "Tornado risk",
                           "Severe thunderstorms">>
              ELSE h3
        h5 == IF years > 15
              THEN AppendIf(risk # "low",
                       AppendIf(temp > 30000, h4, "Unlivable heat conditions"),
                       "Increased storm intensity")
              ELSE h4
        h6 == IF years > 30
              THEN AppendIf(temp > 33000, h5, "Ecosystem collapse")
                   \o <<"Infrastructure breakdown", "Mass displacement risk">>
              ELSE h5
        h7 == IF _is_coastal(lat, lng) /\ years > 10
              THEN h6 \o <<"Sea level rise", "Coastal flooding">>
              ELSE h6
    IN  SubSeq(h7, 1, Min(8, Len(h7)))

\* the number of elements of seq that are in S
RECURSIVE CountIn(_, _)
CountIn(seq, S) ==
    IF seq = <<>> THEN 0
    ELSE (IF Head(seq) \in S THEN 1 ELSE 0) + CountIn(Tail(seq), S)

severe_hazards ==
    {"Hurricanes/tropical storms", "Flooding", "Unlivable heat conditions",
     "Sea level rise", "Infrastructure breakdown"}

\* time_multiplier of _calculate_risk_scores, in hundredths
time_multiplier(years) ==
    IF years <= 10 THEN 100 + years * 3
    ELSE IF years <= 30 THEN 130 + (years - 10) * 5
    ELSE 230 + (years - 30) * 8

\* risk scores whose environmental part is capped at 120 points
_calculate_risk_scores_LooseCap(climate, lat, lng, years, hazards, met_data, up) ==
    LET temp_deviation == Abs(effective_temp(climate, years, met_data) - 25000)
        precip == effective_precip(climate, years, met_data)
        risk == climate.extreme_weather_risk
        weather == CASE risk = "low" -> 0
                     [] risk = "medium" -> 15
                     [] risk = "high" -> 30
                     [] risk = "extreme" -> 45
                     [] OTHER -> 15
        rain == IF precip < 400 * 50 THEN 20
                ELSE IF precip > 1800 * 50 THEN 15 ELSE 0
        env_base == Min(temp_deviation * 3, 35000) + weather * 1000
                    + rain * 1000 + Len(hazards) * 2000
        env_risk == Min(env_base * time_multiplier(years), 120 * 100000)
        econ_base == env_risk * 7
                     + CountIn(hazards, severe_hazards) * 8 * 1000000
                     + (IF _is_coastal(lat, lng) THEN 15 * 1000000 ELSE 0)
                     + (IF years > 20 THEN (years - 20) * 500000 ELSE 0)
        econ_risk == Min(econ_base, 100 * 1000000)
        overall_risk == env_risk * 60 + econ_risk * 4
    IN  [environmental |-> RoundTie(env_risk, 10000, up),
         economic |-> RoundTie(econ_risk, 100000, up),
         overall |-> RoundTie(overall_risk, 1000000, up)]

\* _calculate_risk_scores(state, years, hazards, met_data): the three scores
\* in tenths of a point.  env_risk is accumulated in 1e-5 points, econ_risk
\* in 1e-6 and overall_risk in 1e-7, which keeps every product exact.
_calculate_risk_scores(climate, lat, lng, years, hazards, met_data, up) ==
    LET temp_deviation == Abs(effective_temp(climate, years, met_data) - 25000)
        precip == effective_precip(climate, years, met_data)
        risk == climate.extreme_weather_risk
        weather == CASE risk = "low" -> 0
                     [] risk = "medium" -> 15
                     [] risk = "high" -> 30
                     [] risk = "extreme" -> 45
                     [] OTHER -> 15
        rain == IF precip < 400 * 50 THEN 20
                ELSE IF precip > 1800 * 50 THEN 15 ELSE 0
        env_base == Min(temp_deviation * 3, 35000) + weather * 1000
                    + rain * 1000 + Len(hazards) * 2000
        env_risk == Min(env_base * time_multiplier(years), 100 * 100000)
        econ_base == env_risk * 7
                     + CountIn(hazards, severe_hazards) * 8 * 1000000
                     + (IF _is_coastal(lat, lng) THEN 15 * 1000000 ELSE 0)
                     + (IF years > 20 THEN (years - 20) * 500000 ELSE 0)
        econ_risk == Min(econ_base, 100 * 1000000)
        overall_risk == env_risk * 60 + econ_risk * 4
    IN  [environmental |-> RoundTie(env_risk, 10000, up),
         economic |-> RoundTie(econ_risk, 100000, up),
         overall |-> RoundTie(overall_risk, 1000000, up)]

\* the amount _estimate_economic_losses adds for one hazard, in USD: the
\* first of its substring tests that the lower-cased name passes
hazard_loss(hazard) ==
    CASE hazard \in {"Storm damage", "Hurricanes/tropical storms",
                     "Severe thunderstorms", "Increased storm intensity"} -> 2000
      [] hazard \in {"Flooding", "Coastal flooding"} -> 1500
      [] hazard \in {"Extreme heat waves", "Dangerous heat conditions"} -> 1200
      [] hazard = "Severe drought" -> 800
      [] hazard = "Sea level rise" -> 2500
      [] hazard = "Infrastructure breakdown" -> 1800
      [] OTHER -> 300

RECURSIVE HazardLosses(_)
HazardLosses(hazards) ==
    IF hazards = <<>> THEN 0
    ELSE hazard_loss(Head(hazards)) + HazardLosses(Tail(hazards))

\* _estimate_economic_losses(state, years, hazards, econ_data), in USD
\* (adaptation_cost in tenths, income_change in tenths of a percent).
\* base_loss is kept in thousandths of a USD before the vulnerability
\* factor (vulnerability / 50, vulnerability in quarters of a point); the
\* product is split so that it stays within 32 bits.
_estimate_economic_losses(climate, years, hazards, econ_data, up) ==
    LET start == Max(econ_data.adaptation_cost * 100, 5000)
        income == IF econ_data.income_change < 0
                  THEN start + Abs(econ_data.income_change) * 50
                  ELSE start
        hazarded == income + HazardLosses(hazards) * 10
        timed == IF years > 10
                 THEN hazarded * (100 + (years - 10) * 5)
                 ELSE hazarded * 100
        heated == IF climate.temperature > 30
                  THEN timed + (climate.temperature - 30) * 200 * 1000
                  ELSE timed
        v == econ_data.economic_vulnerability
        whole == heated \div 200000
        part == heated % 200000
    IN  [annual_loss_per_capita |-> whole * v + RoundTie(part * v, 200000, up),
         total_estimated_loss_10yr |->
             whole * v * 10 + RoundTie(part * v * 10, 200000, up),
         economist_adaptation_cost |-> econ_data.adaptation_cost,
         confidence |-> 75]

\* PlannerAgent._generate_recommendations(state, years, hazards, risk_scores)
Planner_generate_recommendations(years, hazards, risk_scores) ==
    LET overall_risk == risk_scores.overall
        names == {hazards[i] : i \in 1..Len(hazards)}
        r1 == IF overall_risk > 750
              THEN <<Rec("HIGH RISK: consider alternative locations", 0),
                     Rec("If staying, invest in climate-resilient housing", 0)>>
              ELSE IF overall_risk > 500
              THEN <<Rec("MODERATE-HIGH RISK: prepare for adaptation needs", 0),
                     Rec("Budget for increased insurance", 0)>>
              ELSE IF overall_risk > 250
              THEN <<Rec("MODERATE RISK: standard climate precautions", 0)>>
              ELSE <<Rec("LOW RISK: relatively stable climate outlook", 0)>>
        r2 == AppendIf(names \cap {"Extreme heat waves", "Prolonged heat stress",
                                   "Dangerous heat conditions",
                                   "Unlivable heat conditions"} # {},
                       r1, Rec("Install high-efficiency cooling systems", 0))
        r3 == AppendIf(names \cap {"Storm damage", "Hurricanes/tropical storms",
                                   "Severe thunderstorms",
                                   "Increased storm intensity"} # {},
                       r2, Rec("Ensure hurricane-rated construction", 0))
        r4 == AppendIf("Drought" \in names \/ "Water scarcity" \in names,
                       r3, Rec("Invest in water conservation systems", 0))
        r5 == AppendIf("Flooding" \in names \/ "Sea level rise" \in names,
                       r4, Rec("Verify property elevation and flood zone status", 0))
        r6 == AppendIf(years > 20, r5,
                       Rec("Consider generational climate migration patterns", 0))
        r7 == AppendIf(years > 30, r6,
                       Rec("Maintain flexibility in plans", 0))
    IN  SubSeq(r7, 1, Min(7, Len(r7)))

\* the claims PlannerAgent.analyze creates
PlannerClaims(risk_scores, economic_impact) ==
    <<AgentClaim("overall_risk", risk_scores.overall, "0-100", 85),
      AgentClaim("environmental_risk", risk_scores.environmental, "0-100", 88),
      AgentClaim("economic_risk", risk_scores.economic, "0-100", 82),
      AgentClaim("estimated_annual_losses",
                 economic_impact.annual_loss_per_capita, "USD", 75)>>

\* the precondition PlannerAgent.analyze checks first
PlannerPrecondition(s) ==
    Truthy(s.meteorologist_output) /\ Truthy(s.economist_output)

\* PlannerAgent.analyze on state s
PlannerAnalyze(s, e) ==
    IF ~ PlannerPrecondition(s)
    THEN Raised("planner", s, "ValueError", <<>>, None, Unused)
    ELSE IF ~ HasAttr(s.climate_data, "temperature")
            \/ ~ HasAttr(s.climate_data, "precipitation")
    THEN Raised("planner", s, "AttributeError",
                <<"_extract_meteorologist_insights", "_extract_economist_insights",
                  "_identify_hazards">>, None, Unused)
    ELSE LET years == years_in_future
             climate == Get(s.climate_data)
             lat == s.location.lat
             lng == s.location.lng
             meteorologist_data == _extract_meteorologist_insights(s)
             economist_data == _extract_economist_insights(s)
             hazards == _identify_hazards(climate, lat, lng, years, meteorologist_data)
             risk_scores == _calculate_risk_scores(climate, lat, lng, years, hazards,
                                                   meteorologist_data, e.tie_up)
             economic_impact == _estimate_economic_losses(climate, years, hazards,
                                                          economist_data, e.tie_up)
             recommendations ==
                 Planner_generate_recommendations(years, hazards, risk_scores)
         IN  Returned("planner", s,
                 [planner_output |->
                      Some(create_message("Planner", "template",
                               PlannerClaims(risk_scores, economic_impact),
                               recommendations)),
                  risk_scores |-> risk_scores,
                  hazards |-> hazards,
                  economic_impact |-> economic_impact],
                 <<"_extract_meteorologist_insights", "_extract_economist_insights",
                   "_identify_hazards", "_calculate_risk_scores",
                   "_estimate_economic_losses", "_generate_recommendations">>,
                 None, Used(None, None, Some(e.tie_up)))

(***************************************************************************)
(* graph.py: the workflow                                                  *)
(***************************************************************************)
Nodes == {"meteorologist", "agronomist", "economist", "planner"}

\* a workflow with a second entry point
EntryPoint_TwoEntries == {"meteorologist", "agronomist"}

\* workflow.set_entry_point
EntryPoint == {"meteorologist"}

\* workflow.add_edge: the successors of a node
Edge(node) ==
    CASE node = "meteorologist" -> {"agronomist"}
      [] node = "agronomist" -> {"economist"}
      [] node = "economist" -> {"planner"}
      [] node = "planner" -> {"END"}

\* the merge of a node's update into the shared state: the channels of a
\* StateGraph(AgentState) are the fields of AgentState
Merge(s, update) ==
    [k \in DOMAIN s |-> IF k \in DOMAIN update THEN update[k] ELSE s[k]]

Awaiting == {"await_fetch", "await_llm"}

\* a node function run_<agent> is entered: by the workflow when the node is
\* scheduled, or by a direct caller of agent.analyze
CanEnter(node) ==
    \/ mode = "graph" /\ run = "running" /\ node \in active /\ pcs[node] = "idle"
    \/ mode = "direct" /\ calls < MaxCalls /\ \A n \in Nodes : pcs[n] \notin Awaiting

Enter(node) ==
    /\ started' = Append(started, node)
    /\ calls' = calls + 1

\* a suspended coroutine is resumed (a failed workflow run resumes nothing)
CanResume(node, at) ==
    pcs[node] = at /\ (mode = "graph" => run = "running")

\* a workflow that goes on to the successors of a node that raised
Finish_ContinuesAfterFailure(node, res) ==
    /\ results' = Append(results, res)
    /\ IF mode = "direct"
       THEN /\ pcs' = [pcs EXCEPT ![node] = "idle"]
            /\ UNCHANGED <<state, active, run>>
       ELSE /\ pcs' = [pcs EXCEPT ![node] = res.outcome]
            /\ state' = IF res.outcome = "raised" THEN state
                        ELSE Merge(state, Get(res.update))
            /\ active' = (active \ {node}) \cup (Edge(node) \ {"END"})
            /\ run' = IF "END" \in Edge(node) THEN "END" ELSE run

\* analyze ends with res: a direct caller gets res; the workflow merges a
\* returned update and schedules the node's successors, and a raised
\* exception ends the run
Finish(node, res) ==
    /\ results' = Append(results, res)
    /\ IF mode = "direct"
       THEN /\ pcs' = [pcs EXCEPT ![node] = "idle"]
            /\ UNCHANGED <<state, active, run>>
       ELSE IF res.outcome = "raised"
       THEN /\ pcs' = [pcs EXCEPT ![node] = "raised"]
            /\ run' = "failed"
            /\ active' = {}
            /\ UNCHANGED state
       ELSE /\ pcs' = [pcs EXCEPT ![node] = "returned"]
            /\ state' = Merge(state, Get(res.update))
            /\ active' = (active \ {node}) \cup (Edge(node) \ {"END"})
            /\ run' = IF "END" \in Edge(node) THEN "END" ELSE run

\* POST /analyze: FastAPI validates the body as an AnalyzeRequest before the
\* handler runs (a 422 answer otherwise); the handler builds the initial
\* AgentState and hands it to stream_agent_outputs
analyze ==
    /\ mode = "graph"
    /\ run = "request"
    /\ LET r == Get(request)
       IN  IF AnalyzeRequest(r) # None /\ AgentState(r) # None
           THEN /\ state' = InitialState(r.location, r.radius, r.priorities)
                /\ run' = "new"
           ELSE /\ run' = "rejected"
                /\ UNCHANGED state
    /\ UNCHANGED <<mode, active, started, pcs, results, calls, request, helper, events>>

\* the events of stream_agent_outputs (main.py): json.dumps of a dict with
\* the keys role and content, and error in the event of the except branch
SystemEvent(content) == [role |-> "system", content |-> content, error |-> FALSE]
ErrorEvent == [role |-> "system", content |-> "Error during analysis", error |-> TRUE]
AgentEvent(agent_name, agent_output) ==
    [role |-> agent_name, content |-> agent_output.message, error |-> FALSE,
     claims |-> agent_output.claims,
     recommendations |-> agent_output.recommendations]

agents_to_stream ==
    <<<<"meteorologist_output", "meteorologist">>,
      <<"agronomist_output", "agronomist">>,
      <<"economist_output", "economist">>,
      <<"planner_output", "planner">>>>

\* the loop over agents_to_stream: one event for every output that is in
\* final_state and truthy
RECURSIVE StreamAgents(_, _)
StreamAgents(final_state, todo) ==
    IF todo = <<>> THEN <<>>
    ELSE LET state_key == Head(todo)[1]
             agent_name == Head(todo)[2]
         IN  (IF state_key \in DOMAIN final_state /\ Truthy(final_state[state_key])
              THEN <<AgentEvent(agent_name, Get(final_state[state_key]))>>
              ELSE <<>>)
             \o StreamAgents(final_state, Tail(todo))

\* a try block whose except branch goes on to the final message
StreamAfterInvoke_CompleteAfterError(outcome, fails_at) ==
    IF outcome.raised THEN <<ErrorEvent, SystemEvent("Analysis complete")>>
    ELSE LET final_state == outcome.final_state
             body == StreamAgents(final_state, agents_to_stream)
                     \o (IF "strategy" \in DOMAIN final_state
                         THEN <<SystemEvent("Analysis complete")>>
                         ELSE <<>>)
         IN  IF fails_at > 0 /\ fails_at <= Len(body)
             THEN SubSeq(body, 1, fails_at - 1)
                  \o <<ErrorEvent, SystemEvent("Analysis complete")>>
             ELSE body

\* the try block of stream_agent_outputs from the point where the awaited
\* agent_graph.ainvoke ends: the events it yields.  outcome is what ainvoke
\* did (raised, or returned final_state); fails_at = k > 0 is an exception
\* raised while the k-th message of the block is built (0: none is raised)
StreamAfterInvoke(outcome, fails_at) ==
    IF outcome.raised THEN <<ErrorEvent>>
    ELSE LET final_state == outcome.final_state
             body == StreamAgents(final_state, agents_to_stream)
                     \o (IF "strategy" \in DOMAIN final_state
                         THEN <<SystemEvent("Analysis complete")>>
                         ELSE <<>>)
         IN  IF fails_at > 0 /\ fails_at <= Len(body)
             THEN SubSeq(body, 1, fails_at - 1) \o <<ErrorEvent>>
             ELSE body

\* stream_agent_outputs up to its first yield
stream_start ==
    /\ mode = "graph"
    /\ run = "new"
    /\ request # None
    /\ events = <<>>
    /\ events' = <<SystemEvent("Starting climate analysis...")>>
    /\ UNCHANGED <<mode, state, run, active, started, pcs, results, calls, request, helper>>

\* stream_agent_outputs from the end of ainvoke to the end of the generator
stream_finish ==
    /\ mode = "graph"
    /\ request # None
    /\ run \in {"END", "failed"}
    /\ Len(events) = 1
    /\ \E fails_at \in 0..5 :
          events' = events \o StreamAfterInvoke(
                        [raised |-> run = "failed", final_state |-> state], fails_at)
    /\ UNCHANGED <<mode, state, run, active, started, pcs, results, calls, request, helper>>

\* agent_graph.ainvoke(state_dict), called by a test or by
\* stream_agent_outputs after its first yield
ainvoke ==
    /\ mode = "graph"
    /\ run = "new"
    /\ request # None => events # <<>>
    /\ run' = "running"
    /\ active' = EntryPoint
    /\ UNCHANGED <<mode, state, started, pcs, results, calls, request, helper, events>>

\* run_meteorologist: analyze runs up to its await of _fetch_climate_data
run_meteorologist ==
    /\ CanEnter("meteorologist")
    /\ Enter("meteorologist")
    /\ pcs' = [pcs EXCEPT !["meteorologist"] = "await_fetch"]
    /\ UNCHANGED <<mode, state, run, active, results, request, helper, events>>

\* the awaited fetch ends and analyze runs to its end
meteorologist_resume ==
    /\ CanResume("meteorologist", "await_fetch")
    /\ \E f \in FetchOutcomes, llm \in {"ok", "fail"} :
          Finish("meteorologist", MeteorologistAnalyze(state, [fetch |-> f, llm |-> llm]))
    /\ UNCHANGED <<mode, started, calls, request, helper, events>>

\* run_agronomist: analyze runs up to its await of llm.ainvoke, or raises
run_agronomist ==
    /\ CanEnter("agronomist")
    /\ Enter("agronomist")
    /\ \E llm \in {"none", "client"}, up \in BOOLEAN :
          LET res == AgronomistStart(state, [llm |-> llm, tie_up |-> up])
          IN  IF res = None
              THEN /\ pcs' = [pcs EXCEPT !["agronomist"] = "await_llm"]
                   /\ UNCHANGED <<state, run, active, results>>
              ELSE Finish("agronomist", Get(res))
    /\ UNCHANGED <<mode, request, helper, events>>

\* the awaited LLM call ends and analyze runs to its end
agronomist_resume ==
    /\ CanResume("agronomist", "await_llm")
    /\ \E llm \in {"ok", "fail"}, up \in BOOLEAN :
          Finish("agronomist", AgronomistResume(state, [llm |-> llm, tie_up |-> up]))
    /\ UNCHANGED <<mode, started, calls, request, helper, events>>

\* run_economist: analyze has no suspension point
run_economist ==
    /\ CanEnter("economist")
    /\ Enter("economist")
    /\ Finish("economist", EconomistAnalyze(state))
    /\ UNCHANGED <<mode, request, helper, events>>

\* run_planner: analyze has no suspension point
run_planner ==
    /\ CanEnter("planner")
    /\ Enter("planner")
    /\ \E up \in BOOLEAN : Finish("planner", PlannerAnalyze(state, [tie_up |-> up]))
    /\ UNCHANGED <<mode, request, helper, events>>

(***************************************************************************)
(* The specification                                                       *)
(***************************************************************************)
\* the bodies a client can post to /analyze
Requests ==
    {[location |-> loc, radius |-> rad, priorities |-> prio] :
        loc \in RawLocations, rad \in RawRadius, prio \in RawPriorities}

\* the states a caller of agent_graph.ainvoke (the pipeline test) can build:
\* whatever the AgentState constructor accepts
GraphStates ==
    {s \in {InitialState(loc, rad, prio) :
                loc \in RawLocations, rad \in RawRadius, prio \in RawPriorities} :
        AgentState(s) # None}

\* no AgentState has been built yet
NoState == [f \in AgentStateFields |-> None]

\* no helper is being called on its own
NoHelper == [fn |-> "none", args |-> <<>>, out |-> None]

Init ==
    /\ mode \in {"graph", "direct"}
    /\ \/ mode = "graph" /\ run = "request"
          /\ request \in {Some(r) : r \in Requests} /\ state = NoState
       \/ mode = "graph" /\ run = "new"
          /\ request = None /\ state \in GraphStates
       \/ mode = "direct" /\ run = "direct"
          /\ request = None /\ state \in DirectStates
    /\ helper = NoHelper
    /\ events = <<>>
    /\ active = {}
    /\ started = <<>>
    /\ pcs = [n \in Nodes |-> "idle"]
    /\ results = <<>>
    /\ calls = 0

Next ==
    \/ analyze
    \/ stream_start
    \/ ainvoke
    \/ run_meteorologist
    \/ meteorologist_resume
    \/ run_agronomist
    \/ agronomist_resume
    \/ run_economist
    \/ run_planner
    \/ stream_finish

Spec == Init /\ [][Next]_vars

(***************************************************************************)
(* The helper methods called on their own (as the unit tests call them)    *)
(***************************************************************************)
\* largest precipitation deficit and surplus (percent) and largest
\* temperature (degrees C) a helper is called with
MaxAnomaly == 90
MaxSurplus == 60
MaxTemp == 40

\* anomalies in steps of half a percent, in tenths of a percent
HalfAnomalies == {5 * k : k \in (-2 * MaxAnomaly)..(2 * MaxSurplus)}
\* anomalies in whole percents
Anomalies == (-MaxAnomaly)..MaxSurplus

HelperCall(fn, args) == [fn |-> fn, args |-> args, out |-> None]

\* _calculate_water_stress called on two anomalies
call_calculate_water_stress ==
    /\ helper.fn = "_calculate_water_stress" /\ helper.out = None
    /\ \E up1, up2 \in BOOLEAN :
          /\ helper.args[1] = helper.args[2] => up1 = up2
          /\ helper' = [helper EXCEPT !.out =
                 Some(<<_calculate_water_stress(helper.args[1], up1),
                        _calculate_water_stress(helper.args[2], up2)>>)]
    /\ UNCHANGED <<mode, state, run, active, started, pcs, results, calls, request, events>>

\* _calculate_yield_impact called on an anomaly and a temperature
call_calculate_yield_impact ==
    /\ helper.fn = "_calculate_yield_impact" /\ helper.out = None
    /\ helper' = [helper EXCEPT !.out =
           Some(_calculate_yield_impact(helper.args[1], helper.args[2]))]
    /\ UNCHANGED <<mode, state, run, active, started, pcs, results, calls, request, events>>

\* _calculate_soil_health called on an anomaly, a water stress and a risk
call_calculate_soil_health ==
    /\ helper.fn = "_calculate_soil_health" /\ helper.out = None
    /\ \E up \in BOOLEAN :
          helper' = [helper EXCEPT !.out =
              Some(_calculate_soil_health(helper.args[1], helper.args[2],
                                          helper.args[3], up))]
    /\ UNCHANGED <<mode, state, run, active, started, pcs, results, calls, request, events>>

\* upstream messages whose claim lists are empty, plain, or name a metric
\* twice
LookupMetMessages ==
    {create_message("Meteorologist", "stub message", claims, <<>>) :
        claims \in {<<>>,
                    <<AgentClaim("precipitation_anomaly", -300, "%", 90),
                      AgentClaim("temperature_anomaly", 150, "C", 85)>>,
                    <<AgentClaim("precipitation_anomaly", -300, "%", 90),
                      AgentClaim("temperature_anomaly", 150, "C", 85),
                      AgentClaim("precipitation_anomaly", -100, "%", 60)>>}}

LookupEconMessages ==
    {create_message("Economist", "stub message", claims, <<>>) :
        claims \in {<<>>,
                    <<AgentClaim("income_change", -120, "%", 75),
                      AgentClaim("adaptation_cost", 1200000, "USD", 70)>>,
                    <<AgentClaim("income_change", -120, "%", 75),
                      AgentClaim("income_change", 40, "%", 75)>>}}

\* the states the extraction helpers are called on
LookupStates ==
    {[InitialState(Nairobi, 75, prio) EXCEPT
          !.meteorologist_output = m, !.economist_output = e] :
        prio \in PrioritiesSet,
        m \in Opt(LookupMetMessages), e \in Opt(LookupEconMessages)}

\* the state the planner sees when the meteorologist and the economist have
\* both returned on a climate record that has the attributes they read: its
\* upstream messages carry the claims those two stages create
PipelineState(climate, prio) ==
    LET projections == _calculate_future_projections(climate, years_in_future)
        met == create_message("Meteorologist", "llm",
                              MeteorologistClaims(climate, projections), <<>>)
        s == [InitialState(Miami, 75, prio) EXCEPT
                  !.climate_data = Some(climate),
                  !.meteorologist_output = Some(met)]
    IN  [s EXCEPT !.economist_output =
             Get(EconomistAnalyze(s).update).economist_output]

\* the states, horizons, hazard lists and overall risks (tenths of a point)
\* the planner's _generate_recommendations is called on
RecommendationStates == {s \in DirectStates : \A f \in
    {"climate_data", "meteorologist_output", "agronomist_output",
     "economist_output"} : s[f] # None}
YearsSet == {5, 25, 35}
HazardLists ==
    {<<>>,
     <<"Severe drought", "Water scarcity">>,
     <<"Extreme heat waves", "Hurricanes/tropical storms", "Tornado risk",
       "Severe thunderstorms", "Sea level rise", "Coastal flooding">>}
OverallRisks == {200, 400, 600, 800}

\* AgronomistAgent._generate_recommendations called on an anomaly and a risk
call_agronomist_generate_recommendations ==
    /\ helper.fn = "agronomist._generate_recommendations" /\ helper.out = None
    /\ helper' = [helper EXCEPT !.out =
           Some(Agronomist_generate_recommendations(helper.args[1], helper.args[2]))]
    /\ UNCHANGED <<mode, state, run, active, started, pcs, results, calls, request, events>>

\* climate records as the planner reads them (temperature, precipitation
\* and a risk level), meteorologist insights (temperature anomaly in
\* hundredths, precipitation trend in tenths) and horizons, for the calls of
\* _calculate_risk_scores
MaxYears == 40
LivabilityClimates ==
    {[temperature |-> t, precipitation |-> p, extreme_weather_risk |-> r] :
        t \in {-10, 15, 25, 30, 36, 50}, p \in {100, 900, 2000},
        r \in {"low", "medium", "high", "extreme"}}
MetInsights ==
    {[precipitation_trend |-> p, temperature_anomaly |-> t,
      extreme_weather_likelihood |-> "medium"] :
        p \in {-500, 0, 500}, t \in {-300, 0, 250}}

PipelineStates ==
    {PipelineState(c, prio) : c \in LivabilityClimates, prio \in PrioritiesSet}

\* PlannerAgent._calculate_risk_scores called as analyze calls it: on the
\* hazards _identify_hazards found for the same state
call_calculate_risk_scores ==
    /\ helper.fn = "_calculate_risk_scores" /\ helper.out = None
    /\ \E up \in BOOLEAN :
          LET climate == helper.args[1]
              location == helper.args[2]
              years == helper.args[3]
              met_data == helper.args[4]
              hazards == _identify_hazards(climate, location.lat, location.lng,
                                           years, met_data)
          IN  helper' = [helper EXCEPT !.out =
                  Some(_calculate_risk_scores(climate, location.lat, location.lng,
                                              years, hazards, met_data, up))]
    /\ UNCHANGED <<mode, state, run, active, started, pcs, results, calls, request, events>>

\* what agent_graph.ainvoke can hand to stream_agent_outputs when it is
\* replaced by a stub: a dict with any of the four outputs set, with and
\* without the key strategy, or an exception (final_state is then never
\* read)
StubOutput(agent_name) == create_message(agent_name, "stub message", <<>>, <<>>)
FinalStates ==
    LET prio == [economic |-> 50, environmental |-> 30, social |-> 20]
        full == {[InitialState(Nairobi, 75, prio) EXCEPT
                      !.meteorologist_output = m, !.agronomist_output = a,
                      !.economist_output = e, !.planner_output = p] :
                    m \in Opt({StubOutput("Meteorologist")}),
                    a \in Opt({StubOutput("Agronomist")}),
                    e \in Opt({StubOutput("Economist")}),
                    p \in Opt({StubOutput("Planner")})}
    IN  full \cup {[k \in DOMAIN s \ {"strategy"} |-> s[k]] : s \in full}
InvokeOutcomes ==
    {[raised |-> r, final_state |-> s] : r \in BOOLEAN, s \in FinalStates}

\* stream_agent_outputs drained by its caller, agent_graph.ainvoke stubbed
call_stream_agent_outputs ==
    /\ helper.fn = "stream_agent_outputs" /\ helper.out = None
    /\ events' = <<SystemEvent("Starting climate analysis...")>>
                    \o StreamAfterInvoke(helper.args[1], helper.args[2])
    /\ helper' = [helper EXCEPT !.out = Some(Len(events'))]
    /\ UNCHANGED <<mode, state, run, active, started, pcs, results, calls, request>>

\* PlannerAgent._extract_meteorologist_insights called on a state
call_extract_meteorologist_insights ==
    /\ helper.fn = "_extract_meteorologist_insights" /\ helper.out = None
    /\ helper' = [helper EXCEPT !.out =
           Some(_extract_meteorologist_insights(helper.args[1]))]
    /\ UNCHANGED <<mode, state, run, active, started, pcs, results, calls, request, events>>

\* PlannerAgent._extract_economist_insights called on a state
call_extract_economist_insights ==
    /\ helper.fn = "_extract_economist_insights" /\ helper.out = None
    /\ helper' = [helper EXCEPT !.out =
           Some(_extract_economist_insights(helper.args[1]))]
    /\ UNCHANGED <<mode, state, run, active, started, pcs, results, calls, request, events>>

\* EconomistAgent._extract_climate_metrics called on a state
call_extract_climate_metrics ==
    /\ helper.fn = "_extract_climate_metrics" /\ helper.out = None
    /\ helper' = [helper EXCEPT !.out =
           Some(_extract_climate_metrics(helper.args[1]))]
    /\ UNCHANGED <<mode, state, run, active, started, pcs, results, calls, request, events>>

\* PlannerAgent._generate_recommendations called on a state, a horizon, a
\* hazard list and risk scores (the method does not read the state)
call_generate_recommendations ==
    /\ helper.fn = "_generate_recommendations" /\ helper.out = None
    /\ helper' = [helper EXCEPT !.out =
           Some(Planner_generate_recommendations(helper.args[2],
                    helper.args[3], helper.args[4]))]
    /\ UNCHANGED <<mode, state, run, active, started, pcs, results, calls, request, events>>

HelperInit ==
    /\ mode = "helper"
    /\ run = "helper"
    /\ state = NoState
    /\ events = <<>>
    /\ request = None
    /\ active = {}
    /\ started = <<>>
    /\ pcs = [n \in Nodes |-> "idle"]
    /\ results = <<>>
    /\ calls = 0
    /\ \/ \E a1 \in HalfAnomalies, a2 \in HalfAnomalies :
             /\ a1 <= a2
             /\ helper = HelperCall("_calculate_water_stress", <<a1, a2>>)
       \/ \E a \in Anomalies, t \in 0..MaxTemp :
             helper = HelperCall("_calculate_yield_impact", <<a, t>>)
       \/ \E a \in Anomalies, w \in 0..100, r \in RiskLiteral :
             helper = HelperCall("_calculate_soil_health", <<a, w, r>>)
       \/ \E a \in Anomalies, r \in RiskLiteral :
             helper = HelperCall("agronomist._generate_recommendations", <<a, r>>)
       \/ \E c \in LivabilityClimates, loc \in {Nairobi, Miami},
             years \in 0..MaxYears, m \in MetInsights :
             helper = HelperCall("_calculate_risk_scores", <<c, loc, years, m>>)
       \/ \E o \in InvokeOutcomes, fails_at \in 0..5 :
             helper = HelperCall("stream_agent_outputs", <<o, fails_at>>)
       \/ \E s \in LookupStates \cup PipelineStates,
             fn \in {"_extract_meteorologist_insights",
                     "_extract_economist_insights", "_extract_climate_metrics"} :
             helper = HelperCall(fn, <<s>>)
       \/ \E s \in RecommendationStates, years \in YearsSet,
             hazards \in HazardLists, overall \in OverallRisks :
             helper = HelperCall("_generate_recommendations",
                         <<s, years, hazards,
                           [environmental |-> overall, economic |-> overall,
                            overall |-> overall]>>)

HelperNext ==
    \/ call_calculate_water_stress
    \/ call_calculate_yield_impact
    \/ call_calculate_soil_health
    \/ call_agronomist_generate_recommendations
    \/ call_calculate_risk_scores
    \/ call_stream_agent_outputs
    \/ call_extract_meteorologist_insights
    \/ call_extract_economist_insights
    \/ call_extract_climate_metrics
    \/ call_generate_recommendations

HelperSpec == HelperInit /\ [][HelperNext]_vars

(***************************************************************************)
(* Properties                                                              *)
(***************************************************************************)
\* the finished calls
Calls == {results[i] : i \in 1..Len(results)}

\* the shared-state fields the planner stage is specified to depend on
PlannerDependencies ==
    {"climate_data", "meteorologist_output", "agronomist_output", "economist_output"}

\* a state that holds climate data and all three upstream outputs
Complete(s) == \A f \in PlannerDependencies : s[f] # None

\* a finished planner call on a complete state
PlannerCallsOnComplete ==
    {r \in Calls : r.stage = "planner" /\ Complete(Get(r.input))}

RECURSIVE SumOver(_, _)
SumOver(f, D) ==
    IF D = {} THEN 0
    ELSE LET x == CHOOSE y \in D : TRUE
         IN  f[x] + SumOver(f, D \ {x})

\* C1: once the planner stage has run on a state that holds climate data and
\* all three upstream outputs, it has completed and the update it returned
\* contains a strategy whose crop_mix shares (in thousandths) are each >= 0
\* and sum to 1.0 within 1e-3.
C1_StrategyNormalized ==
    \A r \in PlannerCallsOnComplete :
        /\ r.outcome = "returned"
        /\ "strategy" \in DOMAIN Get(r.update)
        /\ LET crop_mix == Get(r.update).strategy.crop_mix
               total == SumOver(crop_mix, DOMAIN crop_mix)
           IN  /\ \A crop \in DOMAIN crop_mix : crop_mix[crop] >= 0
               /\ 999 <= total /\ total <= 1001

\* C2: once the planner stage has run on a state that holds climate data and
\* all three upstream outputs, it has completed and the impact it returned
\* (in thousandths) has food in [0,0.35], income in [0,0.25], emissions in
\* [-0.15,0.1] and risk in [-0.35,0].
C2_ImpactBounded ==
    \A r \in PlannerCallsOnComplete :
        /\ r.outcome = "returned"
        /\ "impact" \in DOMAIN Get(r.update)
        /\ LET impact == Get(r.update).impact
           IN  /\ 0 <= impact.food /\ impact.food <= 350
               /\ 0 <= impact.income /\ impact.income <= 250
               /\ -150 <= impact.emissions /\ impact.emissions <= 100
               /\ -350 <= impact.risk /\ impact.risk <= 0

\* C3: a planner call on a state in which climate_data, meteorologist_output,
\* agronomist_output or economist_output is absent raises the dependency
\* error (the ValueError of the precondition check) before any computation
\* and returns no update.
C3_PlannerPrecondition ==
    \A r \in Calls :
        (r.stage = "planner" /\ ~ Complete(Get(r.input)))
            => /\ r.outcome = "raised"
               /\ r.error = "ValueError"
               /\ r.trace = <<>>
               /\ r.update = None

\* C5: a planner call on a state that holds climate data and all three
\* upstream outputs returns an update with the keys planner_output, strategy
\* and impact, and planner_output carries a claim whose metric is
\* climate_resilience_gain.
C5_PlannerUpdateKeys ==
    \A r \in PlannerCallsOnComplete :
        /\ r.outcome = "returned"
        /\ {"planner_output", "strategy", "impact"} \subseteq DOMAIN Get(r.update)
        /\ LET claims == Get(Get(r.update).planner_output).claims
           IN  \E i \in 1..Len(claims) : claims[i].metric = "climate_resilience_gain"

\* the order of the stages of a pipeline run
StageOrder == <<"meteorologist", "agronomist", "economist", "planner">>

\* the shared-state fields a stage's update fills
Outputs(stage) ==
    CASE stage = "meteorologist" -> {"climate_data", "meteorologist_output"}
      [] stage = "agronomist" -> {"agronomist_output"}
      [] stage = "economist" -> {"economist_output"}
      [] stage = "planner" -> {"planner_output"}

UpstreamReads(stage) ==
    CASE stage = "agronomist" -> {"climate_data"}
      [] stage = "economist" -> {"meteorologist_output", "climate_data"}
      [] stage = "planner" -> {"meteorologist_output", "economist_output", "climate_data"}

\* C7: an agronomist, economist or planner call on a state in which a field
\* the stage reads from an earlier stage is absent ends in the dependency
\* error of the stage's own precondition check, before anything is computed.
C7_FailFast ==
    \A r \in Calls :
        (/\ r.stage \in {"agronomist", "economist", "planner"}
         /\ \E f \in UpstreamReads(r.stage) : Get(r.input)[f] = None)
            => /\ r.outcome = "raised"
               /\ r.error = "ValueError"
               /\ r.trace = <<>>

\* every collaborator outcome consumed so far is a stub's: the fetch is the
\* stub returning a valid ClimateData and the text generator answers
Stubbed ==
    \A r \in Calls :
        /\ r.used.fetch # None => Get(r.used.fetch).kind = "stub"
        /\ r.used.llm # None => Get(r.used.llm) = "ok"

\* C8: a pipeline run with stubbed collaborators that has come to its end has
\* completed all four stages without error, and its final state holds
\* planner_output, strategy and impact.
C8_StubbedRunCompletes ==
    (mode = "graph" /\ run \in {"END", "failed"} /\ Stubbed)
        => /\ run = "END"
           /\ started = StageOrder
           /\ state.planner_output # None
           /\ state.strategy # None
           /\ state.impact # None

\* the fixed fallback climate signal
FallbackClimate == Climate(28, 180, -20, "medium")

\* C9: a meteorologist call whose climate-history request failed or returned
\* an incomplete series does not fail: it returns the fallback climate signal
\* and a pipeline run continues with the next stage.
C9_FetchFallback ==
    \A r \in Calls :
        (/\ r.stage = "meteorologist"
         /\ r.used.fetch # None
         /\ Get(r.used.fetch).kind \in FetchFailures)
            => /\ r.outcome = "returned"
               /\ Get(r.update).climate_data = Some(FallbackClimate)
               /\ mode = "graph" => run = "running" /\ "agronomist" \in active

\* the risk level the specification gives for a mean temperature and a
\* 90-day precipitation total: anomaly = (total - 225) / 225 * 100
SpecifiedRisk(temp, total) ==
    LET anomaly225 == (total - 225) * 100
    IN  IF anomaly225 <= -30 * 225 \/ temp >= 34 THEN "high"
        ELSE IF anomaly225 >= 40 * 225 \/ anomaly225 <= -15 * 225 THEN "medium"
        ELSE "low"

\* C10: the risk level the meteorologist stage computes is one of low,
\* medium, high and is the function of temperature and precipitation anomaly
\* given by: high if anomaly <= -30 or temperature >= 34, else medium if
\* anomaly >= 40 or anomaly <= -15, else low.
C10_RiskLevel ==
    \A r \in Calls :
        r.risk # None
            => /\ Get(r.risk) \in RiskLiteral
               /\ Get(r.risk) = SpecifiedRisk(Get(r.used.fetch).avg_temp,
                                              Get(r.used.fetch).total_precip)

\* the ranges a request must respect: priorities in [0,100], lat in
\* [-90,90], lng in [-180,180], radius in [10,200]
WellFormed(s) ==
    /\ \A k \in {"economic", "environmental", "social"} :
           s.priorities[k] >= 0 /\ s.priorities[k] <= 100
    /\ s.location.lat >= -90 /\ s.location.lat <= 90
    /\ s.location.lng >= -180 /\ s.location.lng <= 180
    /\ s.radius >= 10 /\ s.radius <= 200

\* C11: a request whose priorities, lat/lng or radius are out of range is
\* rejected before any stage runs: on every entry path that starts a
\* pipeline run, no stage is ever invoked with such a state
C11_MalformedRejected ==
    mode = "graph" /\ started # <<>> => WellFormed(state)

\* C12: the water-stress index is monotonically non-decreasing as the
\* precipitation anomaly decreases: for all anomalies a1 <= a2 < 0,
\* water_stress(a1) >= water_stress(a2), after rounding to 2 decimals
C12_WaterStressMonotone ==
    /\ helper.fn = "_calculate_water_stress"
    /\ helper.out # None
    /\ helper.args[1] <= helper.args[2]
    /\ helper.args[2] < 0
    => Get(helper.out)[1] >= Get(helper.out)[2]

\* anomalies -16.0 and -15.5: 0.36, and 0.355 rounded up to 0.36
C12_Witness ==
    /\ helper.fn = "_calculate_water_stress"
    /\ helper.args = <<-160, -155>>
    /\ helper.out = Some(<<36, 36>>)

\* the yield change as the specification words it, in tenths of a percent
SpecifiedYield(anomaly, temp) ==
    LET base == CASE anomaly <= -45 -> -250
                  [] anomaly > -45 /\ anomaly <= -30 -> -225
                  [] anomaly > -30 /\ anomaly <= -15 -> -125
                  [] anomaly > -15 /\ anomaly <= 10 -> -25
                  [] anomaly > 10 -> Min(80, anomaly * 2)
        adjustment == CASE temp > 30 -> -50
                        [] temp >= 15 /\ temp <= 25 -> 50
                        [] OTHER -> 0
    IN  base + adjustment

\* C13: the yield change equals the piecewise base value of the anomaly
\* (<=-45: -25.0; <=-30: -22.5; <=-15: -12.5; <=10: -2.5; else
\* min(8.0, anomaly*0.2)) plus exactly one temperature adjustment (-5.0 if
\* temp > 30, +5.0 if 15 <= temp <= 25, 0 otherwise); anomaly -35 with
\* temp 28 gives -22.5
C13_YieldPiecewise ==
    helper.fn = "_calculate_yield_impact" /\ helper.out # None
    => /\ Get(helper.out) = SpecifiedYield(helper.args[1], helper.args[2])
       /\ helper.args = <<-35, 28>> => Get(helper.out) = -225

C13_Witness ==
    /\ helper.fn = "_calculate_yield_impact"
    /\ helper.args = <<-30, 31>>
    /\ helper.out = Some(-275)

\* C14: for every precipitation anomaly, every water-stress value in [0,1]
\* and every risk level, the soil-health index lies in [0,1]; it is exactly
\* 0.0 for a severe drought (anomaly -80, water stress 1.0, risk high) and
\* strictly positive for near-normal conditions (anomaly 10, risk low)
C14_SoilHealthBounded ==
    helper.fn = "_calculate_soil_health" /\ helper.out # None
    => /\ Get(helper.out) >= 0 /\ Get(helper.out) <= 100
       /\ helper.args = <<-80, 100, "high">> => Get(helper.out) = 0
       /\ helper.args[1] = 10 /\ helper.args[3] = "low" => Get(helper.out) > 0

C14_Witness ==
    /\ helper.fn = "_calculate_soil_health"
    /\ helper.args = <<-80, 100, "high">>
    /\ helper.out = Some(0)

\* the values of the claims of a message that carry a given metric name
ClaimValues(message, metric) ==
    {message.claims[i].value :
        i \in {j \in 1..Len(message.claims) : message.claims[j].metric = metric}}

\* the agronomist calls that returned
AgronomistReturns ==
    {r \in Calls : r.stage = "agronomist" /\ r.outcome = "returned"}

\* C15: the agronomist stage's output carries claims named
\* crop_yield_change, water_stress_index and soil_health_index whose values
\* equal the yield, water-stress and soil-health calculators applied to the
\* state's climate data, the soil-health calculator being fed the
\* water-stress value reported in the water_stress_index claim
C15_AgronomistClaims ==
    \A r \in AgronomistReturns :
        LET climate == Get(Get(r.input).climate_data)
            output == Get(Get(r.update).agronomist_output)
            anomaly == climate.precipitation_anomaly
            yield == ClaimValues(output, "crop_yield_change")
            water == ClaimValues(output, "water_stress_index")
            soil == ClaimValues(output, "soil_health_index")
        IN  /\ yield = {_calculate_yield_impact(anomaly, climate.temperature_avg)}
            /\ Cardinality(water) = 1
            /\ water \subseteq {_calculate_water_stress(anomaly * 10, up) :
                                   up \in BOOLEAN}
            /\ Cardinality(soil) = 1
            /\ \A w \in water :
                  soil \subseteq {_calculate_soil_health(anomaly, w,
                                      climate.extreme_weather_risk, up) :
                                     up \in BOOLEAN}

\* the agronomist returned on the planner test's climate record: the
\* reported water stress is 0.5 and the soil health 0.175 before rounding
C15_Witness ==
    \E r \in AgronomistReturns :
        /\ Get(Get(r.input).climate_data) = Climate(29, 120, -30, "high")
        /\ ClaimValues(Get(Get(r.update).agronomist_output),
                       "water_stress_index") = {50}
        /\ ClaimValues(Get(Get(r.update).agronomist_output),
                       "soil_health_index") = {18}

\* claim lookup as the specification words it: the value of the first claim
\* in list order with that metric name, the caller's default when there is
\* none (0.25 for water stress, 0.5 for resilience, 0 for the others)
RECURSIVE FirstMatch(_, _, _)
FirstMatch(claims, metric, default) ==
    IF claims = <<>> THEN default
    ELSE IF Head(claims).metric = metric THEN Head(claims).value
    ELSE FirstMatch(Tail(claims), metric, default)

\* C16: once the planner stage has run on a state that holds climate data
\* and all three upstream outputs, it has completed and its strategy has
\* adaptation_timeline = immediate and irrigation = true whenever risk is
\* high or water_stress > 0.6 or economic_resilience < 0.35; otherwise the
\* timeline is short-term if risk is medium, and 2-3 years if risk is low
\* (indices in hundredths)
C16_TimelineAndIrrigation ==
    \A r \in PlannerCallsOnComplete :
        /\ r.outcome = "returned"
        /\ "strategy" \in DOMAIN Get(r.update)
        /\ LET s == Get(r.input)
               strategy == Get(r.update).strategy
               risk == Get(s.climate_data).extreme_weather_risk
               water_stress == FirstMatch(Get(s.agronomist_output).claims,
                                          "water_stress_index", 25)
               economic_resilience == FirstMatch(Get(s.economist_output).claims,
                                                 "economic_resilience", 50)
           IN  IF risk = "high" \/ water_stress > 60 \/ economic_resilience < 35
               THEN /\ strategy.adaptation_timeline = "immediate"
                    /\ strategy.irrigation = TRUE
               ELSE strategy.adaptation_timeline =
                        (IF risk = "medium" THEN "short-term" ELSE "2-3 years")

\* C17: once the planner stage has run on a state that holds climate data
\* and all three upstream outputs, it has completed and its financing_focus
\* is phase investments whenever adaptation_cost > 90000 and leverage
\* existing budgets whenever adaptation_cost < 40000, regardless of the sign
\* of income_change; only for 40000 <= adaptation_cost <= 90000 is it the
\* income-based default (stabilize incomes if income_change < 0, else
\* balanced); costs in tenths of a USD
C17_FinancingFocus ==
    \A r \in PlannerCallsOnComplete :
        /\ r.outcome = "returned"
        /\ "strategy" \in DOMAIN Get(r.update)
        /\ LET s == Get(r.input)
               strategy == Get(r.update).strategy
               adaptation_cost == FirstMatch(Get(s.economist_output).claims,
                                             "adaptation_cost", 0)
               income_change == FirstMatch(Get(s.economist_output).claims,
                                           "income_change", 0)
           IN  strategy.financing_focus =
                   (IF adaptation_cost > 900000 THEN "phase investments"
                    ELSE IF adaptation_cost < 400000 THEN "leverage existing budgets"
                    ELSE IF income_change < 0 THEN "stabilize incomes"
                    ELSE "balanced")

\* a list without its empty strings and without the later occurrences of an
\* item it already holds
RECURSIVE Dedup(_, _)
Dedup(seq, seen) ==
    IF seq = <<>> THEN <<>>
    ELSE IF Head(seq) \in seen \/ Head(seq)[1] = ""
    THEN Dedup(Tail(seq), seen)
    ELSE <<Head(seq)>> \o Dedup(Tail(seq), seen \cup {Head(seq)})

\* C18: the planner's recommendation list is the concatenation of the
\* meteorologist's, agronomist's and economist's recommendation lists in
\* that order followed by one synthesized summary sentence, with empty
\* strings removed and duplicates removed keeping the first occurrence,
\* truncated to at most 6 items
C18_RecommendationsMerged ==
    helper.fn = "_generate_recommendations" /\ helper.out # None
    => LET s == helper.args[1]
           upstream == Dedup(Get(s.meteorologist_output).recommendations
                             \o Get(s.agronomist_output).recommendations
                             \o Get(s.economist_output).recommendations, {})
           recs == Get(helper.out)
       IN  /\ Len(recs) <= 6
           /\ IF Len(upstream) >= 6
              THEN recs = SubSeq(upstream, 1, 6)
              ELSE /\ Len(recs) \in {Len(upstream), Len(upstream) + 1}
                   /\ SubSeq(recs, 1, Len(upstream)) = upstream

\* C19: when a later stage looks up a metric by name in an upstream stage's
\* claim list, it uses the value of the first claim in list order with that
\* name, and its own default when no claim has that name; the lookup never
\* fails (it yields a value on every state) and leaves the claim list as it
\* was
C19_FirstMatchLookup ==
    helper.out # None
    => LET s == helper.args[1]
           found == Get(helper.out)
           met == IF s.meteorologist_output = None THEN <<>>
                  ELSE Get(s.meteorologist_output).claims
           econ == IF s.economist_output = None THEN <<>>
                   ELSE Get(s.economist_output).claims
       IN  /\ helper.fn = "_extract_meteorologist_insights"
              => /\ found.precipitation_trend
                        = FirstMatch(met, "precipitation_anomaly", 0)
                 /\ found.temperature_anomaly
                        = FirstMatch(met, "temperature_anomaly", 0)
           /\ helper.fn = "_extract_economist_insights"
              => /\ found.income_change = FirstMatch(econ, "income_change", 0)
                 /\ found.adaptation_cost = FirstMatch(econ, "adaptation_cost", 0)
           /\ helper.fn = "_extract_climate_metrics"
              => /\ found.precip_anomaly
                        = FirstMatch(met, "precipitation_anomaly", 0)
                 /\ found.temp_anomaly = FirstMatch(met, "temperature_anomaly", 0)

\* the fields a stage must leave alone: the request's fields and every
\* field written by an earlier stage of the pipeline
FrameOf(stage) ==
    {"location", "radius", "priorities"}
    \cup UNION {Outputs(StageOrder[k]) :
                  k \in {j \in 1..Len(StageOrder) :
                           \E i \in (j + 1)..Len(StageOrder) : StageOrder[i] = stage}}

\* C20: each stage only adds its own fields to the shared record: location,
\* radius, priorities and every field written by an earlier stage
\* (climate_data and earlier stages' outputs) are unchanged by every later
\* stage's update
C20_FrameKept ==
    \A r \in Calls :
        r.outcome = "returned"
        => LET before == Get(r.input)
               after == Merge(before, Get(r.update))
           IN  /\ \A f \in FrameOf(r.stage) : after[f] = before[f]
               /\ mode = "graph" => \A f \in FrameOf(r.stage) : state[f] = before[f]

\* the agronomist returned its update on a state that already holds the
\* meteorologist's fields
C20_Witness ==
    \E r \in Calls :
        /\ r.stage = "agronomist" /\ r.outcome = "returned"
        /\ Get(r.input).climate_data # None
        /\ Get(r.input).meteorologist_output # None
        /\ Get(r.update).agronomist_output # None

\* the calls in which the text-generation collaborator failed
LlmFailures == {r \in Calls : r.error = "LLMError"}

\* C21: when the text-generation collaborator fails in a stage, the failure
\* is reported to the caller and the outputs of the earlier stages as well
\* as the claims and recommendations the stage had already computed are not
\* discarded: they are in what is handed back to the caller
C21_LlmFailureKeepsResults ==
    \A r \in LlmFailures :
        /\ r.update # None
        /\ \A f \in Outputs(r.stage) : f \in DOMAIN Get(r.update)
        /\ r.stage = "agronomist"
           => LET output == Get(Get(r.update).agronomist_output)
                  climate == Get(Get(r.input).climate_data)
              IN  /\ ClaimValues(output, "crop_yield_change") # {}
                  /\ output.recommendations =
                         Agronomist_generate_recommendations(
                             climate.precipitation_anomaly,
                             climate.extreme_weather_risk)

\* the errors of the external collaborators: the climate fetch (request
\* failure or incomplete answer) and the text generation (failure or missing
\* client)
CollaboratorErrors ==
    {FetchError(k) : k \in FetchFailures} \cup {"LLMError", "EnvironmentError"}

\* C22: on a shared state that is valid under the schema and holds every
\* upstream field the stage reads (so that it passes the stage's dependency
\* checks), the stage's arithmetic never raises: the only errors a stage can
\* end in are a dependency error or a failure of an external collaborator
C22_ArithmeticNeverRaises ==
    \A r \in Calls :
        /\ r.outcome = "raised"
        /\ r.stage # "meteorologist"
           => \A f \in UpstreamReads(r.stage) : Get(r.input)[f] # None
        => r.error \in CollaboratorErrors \cup {"ValueError"}

\* the meteorologist calls whose climate fetch produced a record
MeteorologistCallsWithRecord ==
    {r \in Calls : /\ r.stage = "meteorologist"
                   /\ Get(r.used.fetch).kind = "stub"}

\* C23: the meteorologist stage returns as climate_data exactly the record
\* its climate fetch produced, unchanged, and its output message carries
\* claims with the metric names temperature_avg and precipitation_anomaly
C23_MeteorologistReturnsRecord ==
    \A r \in MeteorologistCallsWithRecord :
        /\ r.outcome = "returned"
        /\ Get(r.update).climate_data = Get(r.used.fetch).stub
        /\ LET output == Get(Get(r.update).meteorologist_output)
           IN  {"temperature_avg", "precipitation_anomaly"}
                   \subseteq {output.claims[i].metric : i \in 1..Len(output.claims)}

\* the place of each recommendation in the order of the generator's rules:
\* crop selection, water management, drainage, risk management, timing,
\* fallback
RuleRank(rec) ==
    CASE rec[1] \in {"Switch to drought-resistant varieties",
                     "Introduce drought-tolerant varieties",
                     "Begin transitioning 15-20% of fields"} -> 1
      [] rec[1] \in {"Implement emergency water conservation",
                     "Install water-efficient irrigation systems"} -> 2
      [] rec[1] = "Establish rainwater harvesting systems" -> 3
      [] rec[1] = "Improve field drainage systems" -> 4
      [] rec[1] = "Apply preventative fungicide treatments" -> 5
      [] rec[1] \in {"Diversify with legumes", "Consider crop insurance"} -> 6
      [] rec[1] = "Adopt conservation agriculture" -> 7
      [] rec[1] = "Adjust planting schedules" -> 8
      [] rec[1] = "Monitor soil moisture levels regularly" -> 9
      [] rec[1] = "Maintain diverse crop mix" -> 10

\* a finished call of the agronomist's recommendation generator
AgronomistRecsCalled ==
    helper.fn = "agronomist._generate_recommendations" /\ helper.out # None

\* C25: for every precipitation anomaly and every risk level, the
\* agronomist's recommendation list has at least 2 and at most 5 items, in
\* the order the rules appended them
C25_RecommendationCount ==
    AgronomistRecsCalled
    => LET recs == Get(helper.out)
       IN  /\ Len(recs) >= 2 /\ Len(recs) <= 5
           /\ \A i \in 1..(Len(recs) - 1) : RuleRank(recs[i]) < RuleRank(recs[i + 1])

\* a drought of 35% at high risk: five recommendations
C25_Witness ==
    /\ AgronomistRecsCalled
    /\ helper.args = <<-35, "high">>
    /\ Len(Get(helper.out)) = 5

C27_LegumesAtHighRisk ==
    AgronomistRecsCalled /\ helper.args[2] = "high"
    => \E i \in 1..Len(Get(helper.out)) :
           Get(helper.out)[i][1] = "Diversify with legumes"

\* a drought of 60% at high risk: the list is full and holds the legumes
C27_Witness ==
    /\ AgronomistRecsCalled
    /\ helper.args = <<-60, "high">>
    /\ Len(Get(helper.out)) = 5
    /\ Get(helper.out)[4][1] = "Diversify with legumes"

\* C28: for every state on which the planner's risk scoring runs with a
\* non-negative year horizon, the environmental, economic and overall risk
\* scores it returns and reports as claims each lie in [0,100] (scores in
\* tenths of a point)
C28_RiskScoresBounded ==
    helper.fn = "_calculate_risk_scores" /\ helper.out # None /\ helper.args[3] >= 0
    => LET risk_scores == Get(helper.out)
           claims == PlannerClaims(risk_scores, [annual_loss_per_capita |-> 0])
       IN  /\ \A k \in {"environmental", "economic", "overall"} :
                  risk_scores[k] >= 0 /\ risk_scores[k] <= 1000
           /\ \A i \in 1..3 : claims[i].value >= 0 /\ claims[i].value <= 1000

\* a call in which both caps are reached
C28_Witness ==
    /\ helper.fn = "_calculate_risk_scores"
    /\ helper.out # None
    /\ Get(helper.out).environmental = 1000
    /\ Get(helper.out).economic = 1000

\* the metric names of a claim list, and the names the stages emit or look up
MetricNamesOf(claims) == {claims[i].metric : i \in 1..Len(claims)}
MetricNames ==
    {"temperature", "precipitation", "temperature_anomaly",
     "precipitation_anomaly", "adaptation_cost", "property_value_change",
     "annual_insurance_cost", "economic_vulnerability", "income_change",
     "economic_impact", "economic_resilience", "crop_yield_change",
     "water_stress_index", "soil_health_index"}

\* a lookup function looks a name up when a claim of that name changes what
\* it returns
LooksUp(fn, n) ==
    LET probe == <<AgentClaim(n, 7, "", 50)>>
    IN  CASE fn = "_extract_meteorologist_insights" ->
                 LET d == [precipitation_trend |-> 0, temperature_anomaly |-> 0,
                           extreme_weather_likelihood |-> "medium"]
                 IN  ScanMeteorologistClaims(probe, d) # d
          [] fn = "_extract_economist_insights" ->
                 LET d == [income_change |-> 0, adaptation_cost |-> 0,
                           economic_vulnerability |-> 200]
                 IN  ScanEconomistClaims(probe, d) # d
          [] fn = "_extract_climate_metrics" ->
                 LET d == [temp_anomaly |-> 0, precip_anomaly |-> 0]
                 IN  ScanClimateMetrics(probe, d) # d

\* C29: every metric name that the planner or the economist looks up in an
\* upstream stage's claim list is a name the upstream stage emits, so that
\* on the state of a full pipeline run no lookup falls back to its default
C29_LookupsAreEmitted ==
    /\ helper.fn \in {"_extract_meteorologist_insights",
                      "_extract_economist_insights", "_extract_climate_metrics"}
    /\ helper.out # None
    /\ helper.args[1] \in PipelineStates
    => LET s == helper.args[1]
           upstream == IF helper.fn = "_extract_economist_insights"
                       THEN s.economist_output ELSE s.meteorologist_output
       IN  \A n \in MetricNames :
               LooksUp(helper.fn, n) => n \in MetricNamesOf(ClaimsOf(upstream))

\* the kinds of event in a stream
IsStart(e) == e.role = "system" /\ e.content = "Starting climate analysis..."
IsComplete(e) == e.role = "system" /\ e.content = "Analysis complete"
IsError(e) == e.error
IsAgentEvent(e) == e.role \in Nodes
IsTerminal(e) == IsError(e) \/ IsComplete(e)
StageRank(stage) == CHOOSE i \in 1..4 : StageOrder[i] = stage

\* C24: once any stage of a workflow run fails, the run is aborted: the
\* failed stage is not invoked again and no later stage is invoked (the
\* failed call is the last call and the last stage entered, and nothing
\* is scheduled or suspended), and the failure is surfaced to the caller
\* (ainvoke ends in the failed state, and a stream that has gone past its
\* first event ends with the error event)
C24_FailedRunIsAborted ==
    mode = "graph"
    => /\ \A i \in 1..Len(results) :
              results[i].outcome = "raised"
              => /\ i = Len(results)
                 /\ Len(started) = i
                 /\ started[i] = results[i].stage
                 /\ \A j \in 1..(i - 1) : started[j] # started[i]
                 /\ run = "failed"
                 /\ active = {}
                 /\ \A n \in Nodes : pcs[n] \notin Awaiting
                 /\ Len(events) > 1 => Len(events) = 2 /\ IsError(events[2])
       /\ run = "failed"
          => Len(results) > 0 /\ results[Len(results)].outcome = "raised"

\* a posted run whose first stage failed and whose stream has ended
C24_Witness ==
    /\ mode = "graph"
    /\ request # None
    /\ run = "failed"
    /\ started = <<"meteorologist">>
    /\ Len(events) = 2
    /\ IsError(events[2])

\* C30: every event stream of stream_agent_outputs starts with the
\* 'Starting climate analysis...' system event, then has agent events only
\* in the order meteorologist, agronomist, economist, planner, each at most
\* once and only after the workflow has finished, and ends with at most one
\* terminal event: an error event or 'Analysis complete' is the last event
\* of its stream, so neither is followed by anything nor joined by the other
C30_StreamShape ==
    events # <<>>
    => /\ IsStart(events[1])
       /\ \A i \in 2..Len(events) :
              /\ ~ IsStart(events[i])
              /\ IsAgentEvent(events[i]) \/ IsTerminal(events[i])
              /\ IsTerminal(events[i]) => i = Len(events)
              /\ \A j \in 2..(i - 1) :
                     IsAgentEvent(events[i]) /\ IsAgentEvent(events[j])
                     => StageRank(events[j].role) < StageRank(events[i].role)
       /\ mode = "graph" /\ Len(events) > 1
          => run \in {"END", "failed"} /\ active = {}
                 /\ \A n \in Nodes : pcs[n] \notin Awaiting

\* a drained stream with all four agent events and 'Analysis complete'
C30_Witness ==
    /\ helper.fn = "stream_agent_outputs"
    /\ Len(events) = 6
    /\ IsAgentEvent(events[2]) /\ IsAgentEvent(events[5])
    /\ IsComplete(events[6])

====
